---- MODULE Spec2Model ----
(***************************************************************************)
(* The orchestration layer of cc/main.cc, one specification per mode:      *)
(*   Spec, FairSpec          paired evaluation of two models               *)
(*                           (PairEvaluator): the worker threads of Run,   *)
(*                           the Barrier they share, and the two mirrored  *)
(*                           MctsPlayer objects each worker drives;        *)
(*   SendSpec, FairSendSpec  one call of GtpClient::Send against its       *)
(*                           subprocess;                                   *)
(*   GtpSpec                 evaluation against a GTP engine               *)
(*                           (GtpEvaluator);                               *)
(*   SelfPlaySpec            self-play with flag reloading (SelfPlayer);   *)
(*   BatchSpec               the batch size of NewDualNetFactory;          *)
(*   FlagLineSpec            MaybeReloadFlags on one line of the flag      *)
(*                           file;                                         *)
(*   PuzzleSpec              the puzzle mode (Puzzle) on one game.         *)
(* The variables of the modes not running keep their initial values.       *)
(*                                                                         *)
(* Granularity.  Barrier::Wait and Barrier::DecrementCount run under       *)
(* mutex_ (absl::MutexLock).  A step that acquires mutex_ runs the code up *)
(* to the next point where the mutex is given up (cond_var_.Wait) or the   *)
(* function body ends; leaving the scope (the unlock) is a step of its     *)
(* own.  Everything else a worker does is one step per statement group of  *)
(* ThreadRun.  History variables (named hist_...) record the past and      *)
(* are never read by the modelled code.                                    *)
(***************************************************************************)
EXTENDS Integers, Sequences, FiniteSets, TLC

\* FLAGS_parallel_games: the number of worker threads (games).
NumGames == 2

\* Longest game, in moves: the player reports game_over() after at most
\* this many moves (earlier on a resignation).
MaxMoves == 2

Threads == 0 .. (NumGames - 1)

NoThread == 0 - 1

NoGen == 0 - 1

\* The two Model objects of Run(): cur_model (FLAGS_model_two) and
\* prev_model (FLAGS_model).
Models == {"cur", "prev"}

NoNet == "none"

\* Moves SuggestMove can return.
Moves == {"play", "resign"}

NoMove == "none"

\* Values of FLAGS_komi, in half points: a whole number of points (a scored
\* game can be tied) or a whole number plus a half (it cannot).
KomiValues == {0, 1}

VARIABLES
  count_,          \* Barrier::count_
  num_waiting_,    \* Barrier::num_waiting_
  generation_,     \* Barrier::generation_
  mutex_,          \* Barrier::mutex_: the thread holding it, or NoThread
  cond_waiters,    \* threads blocked in cond_var_.Wait, not yet signalled
  pc,              \* per thread: position in ThreadRun / Barrier
  site,            \* per thread: where the current Wait() returns to
  generation,      \* per thread: the local `generation` of Wait()
  dual_net,        \* per thread: the local unique_ptr<DualNet> (model or NoNet)
  factory,         \* per thread: the local `factory` pointer (whose factory)
  player,          \* per thread: which MctsPlayer object `player` points to
  pos,             \* per thread: moves played on MctsPlayer objects 1 and 2
  move,            \* per thread: the local `move`
  black_wins,      \* per model: EvalResults::black_wins
  white_wins,      \* per model: EvalResults::white_wins
  hist_suggests,   \* per thread: SuggestMove calls since the last release
  hist_releaser,   \* thread whose current barrier call released, or NoThread
  hist_called,     \* per thread: generation_ when it last called Wait()
  hist_black,      \* per thread: the model whose instance suggested move 1
  komi,            \* MctsPlayer::Options::komi (FLAGS_komi), in half points
  s_sub,           \* GTP subprocess: "running", "silent" (hung) or "closed"
  s_pipe,          \* the unread line at the head of input_, or NoLine
  s_pc,            \* position of the caller in GtpClient::Send
  s_result,        \* what Send returned (absl::optional<std::string>)
  hist_s_reply,    \* first line the subprocess wrote that starts with = or ?
  hist_s_skipped,  \* Send read a line and went round the loop again
  hist_s_taken,    \* lines Send read from hist_s_reply on: 0, 1, or 2 for more
  g_pc,            \* per thread: position in GtpEvaluator::ThreadRun
  color_,          \* per thread: GtpClient::color_ of its gtp_client
  mcts_player,     \* per thread: moves played on its mcts_player
  g_move,          \* per thread: the local `move` / what GenMove returned
  success,         \* per thread: what Play returned
  name,            \* per results object: EvalResults::name
  gtp_black_wins,  \* per results object: EvalResults::black_wins
  gtp_white_wins,  \* per results object: EvalResults::white_wins
  name_tmp,        \* the std::string gtp_client->Name() returned (line 889)
  sgf_dir,         \* whether FLAGS_sgf_dir is non-empty
  hist_g_cmd,      \* per thread: last command sent, with its colour
  hist_g_reply,    \* per thread: the subprocess's reply line to it
  hist_g_failed,   \* per thread: a Play of this game returned false
  sp_mutex,        \* SelfPlayer::mutex_: the thread holding it, or NoThread
  sp_pc,           \* per thread: position in SelfPlayer::ThreadRun
  FLAGS,           \* the gflags values, by flag name
  flags_path,      \* whether FLAGS_flags_path is non-empty
  flags_timestamp_,\* SelfPlayer::flags_timestamp_
  file,            \* the flag file: its modification time and its lines
  lines,           \* per thread: MaybeReloadFlags' `lines` still to apply
  game_options,    \* per thread: the local GameOptions, or NoOptions
  old_model,       \* per thread: the local `old_model` (line 418), or NoFlag
  hot_flags,       \* the flags that this run's flag file can name
  hist_stable,     \* the flag values when the last reload had ended
  hist_unmodified, \* the file was not written since the last attempt began
  hist_loader,     \* the thread that last loaded the file, or NoThread
  hist_old_model,  \* per thread: FLAGS_model when it last took mutex_
  \* NewDualNetFactory (lines 158-171)
  virtual_losses,      \* FLAGS_virtual_losses
  num_parallel_games,  \* the argument of NewDualNetFactory
  buffer_count,        \* what dual_net->GetBufferCount() returned
  batch_size,          \* the batch size computed, or NoBatch
  \* MaybeReloadFlags on one line of the flag file (lines 508-522)
  flag_line,       \* the line, as the split of the file at "\n" gives it
  flag_value,      \* what became of it, or NoOutcome
  \* Puzzle (lines 961-1027)
  moves,           \* the main-line moves of the recorded game
  players,         \* the vector `players`: the move history of each player
  puzzles,         \* the vector `puzzles`: pairs of a player and a move
  pz_pc,           \* "build", "run" or "done"
  pz_result,       \* the atomic counter `result`
  pz_done,         \* the puzzles whose thread has ended
  hist_pz_suggest  \* per puzzle: what SuggestMove returned, or NoMove

vars == <<count_, num_waiting_, generation_, mutex_, cond_waiters, pc, site,
          generation, dual_net, factory, player, pos, move, black_wins,
          white_wins, hist_suggests, hist_releaser, hist_called,
          hist_black, komi, s_sub, s_pipe, s_pc, s_result, hist_s_reply,
          hist_s_skipped, hist_s_taken, g_pc, color_, mcts_player, g_move,
          success, name, gtp_black_wins, gtp_white_wins, name_tmp, sgf_dir,
          hist_g_cmd, hist_g_reply, hist_g_failed, sp_mutex, sp_pc, FLAGS,
          flags_path, flags_timestamp_, file, lines, game_options,
          old_model, hot_flags, hist_stable, hist_unmodified,
          hist_loader, hist_old_model, virtual_losses, num_parallel_games,
          buffer_count, batch_size, flag_line, flag_value, moves, players,
          puzzles, pz_pc, pz_result, pz_done, hist_pz_suggest>>

barrier_vars == <<count_, num_waiting_, generation_, mutex_, cond_waiters>>

local_vars == <<dual_net, factory, player, pos, move>>

results_vars == <<black_wins, white_wins>>

hist_vars == <<hist_suggests, hist_releaser, hist_called, hist_black>>

\* GtpClient::Send and the subprocess at the other end of its pipes.
send_vars == <<s_sub, s_pipe, s_pc, s_result, hist_s_reply, hist_s_skipped,
               hist_s_taken>>

\* GtpEvaluator: its workers, their GtpClient and MctsPlayer, the results.
gtp_vars == <<g_pc, color_, mcts_player, g_move, success, name,
              gtp_black_wins, gtp_white_wins, name_tmp, sgf_dir, hist_g_cmd,
              hist_g_reply, hist_g_failed>>

\* SelfPlayer: its workers, the flags and the flag file.
self_vars == <<sp_mutex, sp_pc, FLAGS, flags_path, flags_timestamp_, file,
               lines, game_options, old_model, hot_flags,
               hist_stable, hist_unmodified, hist_loader, hist_old_model>>

\* What no step of the paired evaluation changes.
batch_vars == <<virtual_losses, num_parallel_games, buffer_count, batch_size>>

flag_line_vars == <<flag_line, flag_value>>

puzzle_vars == <<moves, players, puzzles, pz_pc, pz_result, pz_done,
                 hist_pz_suggest>>

\* The state of the three computations that run once, on one thread.
once_vars == <<batch_vars, flag_line_vars, puzzle_vars>>

pair_frame == <<komi, send_vars, gtp_vars, self_vars, once_vars>>

\* The state of the paired evaluation (PairEvaluator).
pair_vars == <<barrier_vars, pc, site, generation, local_vars, results_vars,
               hist_vars, komi>>

\* What no step of Send or of its subprocess changes.
send_frame == <<pair_vars, gtp_vars, self_vars, once_vars>>

\* What no step of the evaluation against a GTP engine changes.
gtp_frame == <<pair_vars, send_vars, self_vars, once_vars>>

\* What no step of self-play changes.
self_frame == <<pair_vars, send_vars, gtp_vars, once_vars>>

\* What no step of the three computations changes, and what each of them
\* leaves alone.
once_frame == <<pair_vars, send_vars, gtp_vars, self_vars>>

batch_frame == <<once_frame, flag_line_vars, puzzle_vars>>

flag_line_frame == <<once_frame, batch_vars, puzzle_vars>>

puzzle_frame == <<once_frame, batch_vars, flag_line_vars>>

----------------------------------------------------------------------------
(* PairEvaluator::Run and the player collaborator                          *)

\* Run(): bool swap_models = (thread_id & 1) != 0
swap_models(t) == t % 2 # 0

\* ThreadRun's `model` after the std::swap of line 643: Run passes
\* (cur_model, prev_model) as (model, other_model).
model(t) == IF swap_models(t) THEN "prev" ELSE "cur"

other_model(t) == IF swap_models(t) THEN "cur" ELSE "prev"

Other(m) == IF m = "cur" THEN "prev" ELSE "cur"

\* MctsPlayer::root()->game_over() of a player with move history p.
game_over(p) ==
  \/ Len(p) >= MaxMoves
  \/ (Len(p) > 0 /\ p[Len(p)] = "resign")

\* The stones on the board after the moves p, black's minus white's: every
\* "play" move puts one stone of the mover's colour (black moves first).
StoneDiff(p) ==
  Cardinality({i \in 1 .. Len(p) : p[i] = "play" /\ i % 2 = 1})
  - Cardinality({i \in 1 .. Len(p) : p[i] = "play" /\ i % 2 = 0})

Sign(x) == IF x > 0 THEN 1 ELSE IF x < 0 THEN 0 - 1 ELSE 0

\* MctsPlayer::result() of a finished game with move history p: positive
\* favours black (the first player).  The side that resigns loses; any other
\* game is scored: black's stones minus white's minus komi (komi counts half
\* points, so the score is compared in half points; it is 0 for a tie).
result(p) ==
  IF Len(p) > 0 /\ p[Len(p)] = "resign"
  THEN (IF Len(p) % 2 = 1 THEN 0 - 1 ELSE 1)
  ELSE Sign(2 * StoneDiff(p) - komi)

\* MctsPlayer::PlayMove(move) on a player with move history p.
PlayMove(p, m) == Append(p, m)

----------------------------------------------------------------------------
(* PairEvaluator::Barrier                                                  *)

\* IncrementGeneration without the reset of num_waiting_.
IncrementGenerationNoReset(t) ==
  /\ generation_' = generation_ + 1
  /\ num_waiting_' = num_waiting_
  /\ cond_waiters' = {}
  /\ hist_suggests' = [u \in Threads |-> 0]
  /\ hist_releaser' = t

\* Barrier::IncrementGeneration: ++generation_; num_waiting_ = 0;
\* cond_var_.SignalAll().
IncrementGeneration(t) ==
  /\ generation_' = generation_ + 1
  /\ num_waiting_' = 0
  /\ cond_waiters' = {}
  /\ hist_suggests' = [u \in Threads |-> 0]
  /\ hist_releaser' = t

\* A loop condition that holds for every generation observed so far.
WaitLoopCondAlways(observed, current) == observed <= current

\* The loop condition of Wait(): while (generation != generation_).
WaitLoopCond(observed, current) == observed # current

\* Barrier::Wait from the acquisition of mutex_ (on entry, or on return
\* from cond_var_.Wait, which may also happen spuriously) up to the next
\* point where the thread either blocks in cond_var_.Wait or has finished
\* the body of Wait().
BarrierWait(t) ==
  /\ pc[t] \in {"Wait", "WaitCv"}
  /\ mutex_ = NoThread
  /\ IF pc[t] = "Wait"
     THEN IF num_waiting_ + 1 = count_
          THEN /\ IncrementGeneration(t)
               /\ generation' = [generation EXCEPT ![t] = NoGen]
               /\ pc' = [pc EXCEPT ![t] = "WaitExit"]
               /\ mutex_' = t
          ELSE /\ num_waiting_' = num_waiting_ + 1
               /\ generation' = [generation EXCEPT ![t] = generation_]
               /\ generation_' = generation_
               /\ UNCHANGED <<hist_suggests, hist_releaser>>
               /\ IF WaitLoopCond(generation_, generation_)
                  THEN /\ cond_waiters' = cond_waiters \cup {t}
                       /\ pc' = [pc EXCEPT ![t] = "WaitCv"]
                       /\ mutex_' = NoThread
                  ELSE /\ cond_waiters' = cond_waiters
                       /\ pc' = [pc EXCEPT ![t] = "WaitExit"]
                       /\ mutex_' = t
     ELSE /\ UNCHANGED <<num_waiting_, generation_, generation,
                         hist_suggests, hist_releaser>>
          /\ IF WaitLoopCond(generation[t], generation_)
             THEN /\ cond_waiters' = cond_waiters \cup {t}
                  /\ pc' = pc
                  /\ mutex_' = NoThread
             ELSE /\ cond_waiters' = cond_waiters \ {t}
                  /\ pc' = [pc EXCEPT ![t] = "WaitExit"]
                  /\ mutex_' = t
  /\ UNCHANGED <<count_, site, hist_called, hist_black>>
  /\ UNCHANGED local_vars
  /\ UNCHANGED results_vars
  /\ UNCHANGED pair_frame

\* The end of Wait(): the MutexLock releases mutex_ and the call returns.
WaitReturn(t) ==
  /\ pc[t] = "WaitExit"
  /\ mutex_ = t
  /\ mutex_' = NoThread
  /\ pc' = [pc EXCEPT ![t] = site[t]]
  /\ generation' = [generation EXCEPT ![t] = NoGen]
  /\ hist_releaser' = IF hist_releaser = t THEN NoThread ELSE hist_releaser
  /\ hist_called' = [hist_called EXCEPT ![t] = NoGen]
  /\ hist_black' = hist_black
  /\ UNCHANGED <<count_, num_waiting_, generation_, cond_waiters, site,
                 hist_suggests>>
  /\ UNCHANGED local_vars
  /\ UNCHANGED results_vars
  /\ UNCHANGED pair_frame

\* DecrementCount with a post-decrement: if (num_waiting_ == count_--).
DecrementCountPost(t) ==
  /\ pc[t] = "DecrementCount"
  /\ mutex_ = NoThread
  /\ mutex_' = t
  /\ count_' = count_ - 1
  /\ IF num_waiting_ = count_
     THEN IncrementGeneration(t)
     ELSE UNCHANGED <<generation_, num_waiting_, cond_waiters,
                      hist_suggests, hist_releaser>>
  /\ pc' = [pc EXCEPT ![t] = "DecExit"]
  /\ UNCHANGED <<site, generation, hist_called, hist_black>>
  /\ UNCHANGED local_vars
  /\ UNCHANGED results_vars
  /\ UNCHANGED pair_frame

\* Barrier::DecrementCount up to the end of its body:
\* if (num_waiting_ == --count_) IncrementGeneration().
DecrementCount(t) ==
  /\ pc[t] = "DecrementCount"
  /\ mutex_ = NoThread
  /\ mutex_' = t
  /\ count_' = count_ - 1
  /\ IF num_waiting_ = count_ - 1
     THEN IncrementGeneration(t)
     ELSE UNCHANGED <<generation_, num_waiting_, cond_waiters,
                      hist_suggests, hist_releaser>>
  /\ pc' = [pc EXCEPT ![t] = "DecExit"]
  /\ UNCHANGED <<site, generation, hist_called, hist_black>>
  /\ UNCHANGED local_vars
  /\ UNCHANGED results_vars
  /\ UNCHANGED pair_frame

\* The end of DecrementCount() with mutex_ left locked.
DecrementReturnKeepsMutex(t) ==
  /\ pc[t] = "DecExit"
  /\ mutex_ = t
  /\ mutex_' = t
  /\ pc' = [pc EXCEPT ![t] = "check"]
  /\ hist_releaser' = IF hist_releaser = t THEN NoThread ELSE hist_releaser
  /\ UNCHANGED <<count_, num_waiting_, generation_, cond_waiters, site,
                 generation, hist_suggests, hist_called, hist_black>>
  /\ UNCHANGED local_vars
  /\ UNCHANGED results_vars
  /\ UNCHANGED pair_frame

\* The end of DecrementCount(): mutex_ is released and the call returns.
DecrementReturn(t) ==
  /\ pc[t] = "DecExit"
  /\ mutex_ = t
  /\ mutex_' = NoThread
  /\ pc' = [pc EXCEPT ![t] = "check"]
  /\ hist_releaser' = IF hist_releaser = t THEN NoThread ELSE hist_releaser
  /\ UNCHANGED <<count_, num_waiting_, generation_, cond_waiters, site,
                 generation, hist_suggests, hist_called, hist_black>>
  /\ UNCHANGED local_vars
  /\ UNCHANGED results_vars
  /\ UNCHANGED pair_frame

----------------------------------------------------------------------------
(* PairEvaluator::ThreadRun                                                *)

\* Lines 642-648: a swapped worker swaps its models and waits once.
ThreadStart(t) ==
  /\ pc[t] = "start"
  /\ IF swap_models(t)
     THEN /\ pc' = [pc EXCEPT ![t] = "Wait"]
          /\ site' = [site EXCEPT ![t] = "setup"]
          /\ hist_called' = [hist_called EXCEPT ![t] = generation_]
     ELSE /\ pc' = [pc EXCEPT ![t] = "setup"]
          /\ UNCHANGED <<site, hist_called>>
  /\ hist_black' = hist_black
  /\ UNCHANGED <<generation, hist_suggests, hist_releaser>>
  /\ UNCHANGED barrier_vars
  /\ UNCHANGED local_vars
  /\ UNCHANGED results_vars
  /\ UNCHANGED pair_frame

\* Lines 650-674: the two players are constructed (object 1 is `player`,
\* which is black; object 2 is `other_player`), `factory` is model's.
Setup(t) ==
  /\ pc[t] = "setup"
  /\ dual_net' = [dual_net EXCEPT ![t] = NoNet]
  /\ player' = [player EXCEPT ![t] = 1]
  /\ pos' = [pos EXCEPT ![t] = <<<<>>, <<>>>>]
  /\ factory' = [factory EXCEPT ![t] = model(t)]
  /\ pc' = [pc EXCEPT ![t] = "while"]
  /\ UNCHANGED <<move, site, generation>>
  /\ UNCHANGED barrier_vars
  /\ UNCHANGED results_vars
  /\ UNCHANGED hist_vars
  /\ UNCHANGED pair_frame

\* Line 676: while (!player->root()->game_over()).
While(t) ==
  /\ pc[t] = "while"
  /\ IF ~game_over(pos[t][player[t]])
     THEN pc' = [pc EXCEPT ![t] = "new"]
     ELSE pc' = [pc EXCEPT ![t] = "DecrementCount"]
  /\ UNCHANGED <<site, generation>>
  /\ UNCHANGED barrier_vars
  /\ UNCHANGED local_vars
  /\ UNCHANGED results_vars
  /\ UNCHANGED hist_vars
  /\ UNCHANGED pair_frame

\* Lines 682-686: dual_net = factory->New(); then barrier_->Wait() is called.
NewDualNet(t) ==
  /\ pc[t] = "new"
  /\ dual_net' = [dual_net EXCEPT ![t] = factory[t]]
  /\ pc' = [pc EXCEPT ![t] = "Wait"]
  /\ site' = [site EXCEPT ![t] = "suggest"]
  /\ hist_called' = [hist_called EXCEPT ![t] = generation_]
  /\ UNCHANGED <<factory, player, pos, move, generation, hist_suggests,
                 hist_releaser, hist_black>>
  /\ UNCHANGED barrier_vars
  /\ UNCHANGED results_vars
  /\ UNCHANGED pair_frame

\* Line 687: auto move = player->SuggestMove().
SuggestMove(t) ==
  /\ pc[t] = "suggest"
  /\ \E m \in Moves : move' = [move EXCEPT ![t] = m]
  /\ pc' = [pc EXCEPT ![t] = "reset"]
  /\ hist_suggests' = [hist_suggests EXCEPT ![t] = IF @ < 2 THEN @ + 1 ELSE @]
  /\ hist_black' = IF Len(pos[t][player[t]]) = 0
                   THEN [hist_black EXCEPT ![t] = dual_net[t]]
                   ELSE hist_black
  /\ UNCHANGED <<dual_net, factory, player, pos, site, generation,
                 hist_releaser, hist_called>>
  /\ UNCHANGED barrier_vars
  /\ UNCHANGED results_vars
  /\ UNCHANGED pair_frame

\* Line 688 without the reset: the instance stays live.
ResetDualNetKeeps(t) ==
  /\ pc[t] = "reset"
  /\ dual_net' = dual_net
  /\ pc' = [pc EXCEPT ![t] = "play"]
  /\ UNCHANGED <<factory, player, pos, move, site, generation>>
  /\ UNCHANGED barrier_vars
  /\ UNCHANGED results_vars
  /\ UNCHANGED hist_vars
  /\ UNCHANGED pair_frame

\* Line 688: dual_net.reset().
ResetDualNet(t) ==
  /\ pc[t] = "reset"
  /\ dual_net' = [dual_net EXCEPT ![t] = NoNet]
  /\ pc' = [pc EXCEPT ![t] = "play"]
  /\ UNCHANGED <<factory, player, pos, move, site, generation>>
  /\ UNCHANGED barrier_vars
  /\ UNCHANGED results_vars
  /\ UNCHANGED hist_vars
  /\ UNCHANGED pair_frame

\* Only `player` plays the move; other_player is left behind.
PlayOnlyPlayer(ps, pl, m) == [ps EXCEPT ![pl] = PlayMove(ps[pl], m)]

\* Lines 692-693: player->PlayMove(move); other_player->PlayMove(move).
\* The new histories of objects 1 and 2 of a worker whose `player` is
\* object pl.
PlayBoth(ps, pl, m) ==
  [ps EXCEPT ![pl] = PlayMove(ps[pl], m), ![3 - pl] = PlayMove(ps[3 - pl], m)]

\* Lines 692-698: both players play the move, then factory and
\* other_factory, player and other_player are swapped.
PlayAndSwap(t) ==
  /\ pc[t] = "play"
  /\ pos' = [pos EXCEPT ![t] = PlayBoth(pos[t], player[t], move[t])]
  /\ factory' = [factory EXCEPT ![t] = Other(factory[t])]
  /\ player' = [player EXCEPT ![t] = 3 - player[t]]
  /\ move' = [move EXCEPT ![t] = NoMove]
  /\ pc' = [pc EXCEPT ![t] = "while"]
  /\ UNCHANGED <<dual_net, site, generation>>
  /\ UNCHANGED barrier_vars
  /\ UNCHANGED results_vars
  /\ UNCHANGED hist_vars
  /\ UNCHANGED pair_frame

\* The win counted for the models that `factory` and `other_factory` point
\* to when the loop ends.
CheckAndCountCurrentFactory(t) ==
  /\ pc[t] = "check"
  /\ IF result(pos[t][player[t]]) # result(pos[t][3 - player[t]])
     THEN /\ pc' = [pc EXCEPT ![t] = "fatal"]
          /\ UNCHANGED results_vars
     ELSE /\ pc' = [pc EXCEPT ![t] = "done"]
          /\ black_wins' =
               IF result(pos[t][player[t]]) > 0
               THEN [black_wins EXCEPT ![factory[t]] = @ + 1]
               ELSE black_wins
          /\ white_wins' =
               IF result(pos[t][player[t]]) < 0
               THEN [white_wins EXCEPT ![Other(factory[t])] = @ + 1]
               ELSE white_wins
  /\ UNCHANGED <<site, generation>>
  /\ UNCHANGED barrier_vars
  /\ UNCHANGED local_vars
  /\ UNCHANGED hist_vars
  /\ UNCHANGED pair_frame

\* The win counted with a tie taken for a win of black.
CheckAndCountTieBlack(t) ==
  /\ pc[t] = "check"
  /\ IF result(pos[t][player[t]]) # result(pos[t][3 - player[t]])
     THEN /\ pc' = [pc EXCEPT ![t] = "fatal"]
          /\ UNCHANGED results_vars
     ELSE /\ pc' = [pc EXCEPT ![t] = "done"]
          /\ black_wins' =
               IF result(pos[t][player[t]]) >= 0
               THEN [black_wins EXCEPT ![model(t)] = @ + 1]
               ELSE black_wins
          /\ white_wins' =
               IF result(pos[t][player[t]]) < 0
               THEN [white_wins EXCEPT ![other_model(t)] = @ + 1]
               ELSE white_wins
  /\ UNCHANGED <<site, generation>>
  /\ UNCHANGED barrier_vars
  /\ UNCHANGED local_vars
  /\ UNCHANGED hist_vars
  /\ UNCHANGED pair_frame

\* Lines 703-709: MG_CHECK(player->result() == other_player->result()),
\* then the win is counted.
CheckAndCount(t) ==
  /\ pc[t] = "check"
  /\ IF result(pos[t][player[t]]) # result(pos[t][3 - player[t]])
     THEN /\ pc' = [pc EXCEPT ![t] = "fatal"]
          /\ UNCHANGED results_vars
     ELSE /\ pc' = [pc EXCEPT ![t] = "done"]
          /\ black_wins' =
               IF result(pos[t][player[t]]) > 0
               THEN [black_wins EXCEPT ![model(t)] = @ + 1]
               ELSE black_wins
          /\ white_wins' =
               IF result(pos[t][player[t]]) < 0
               THEN [white_wins EXCEPT ![other_model(t)] = @ + 1]
               ELSE white_wins
  /\ UNCHANGED <<site, generation>>
  /\ UNCHANGED barrier_vars
  /\ UNCHANGED local_vars
  /\ UNCHANGED hist_vars
  /\ UNCHANGED pair_frame

----------------------------------------------------------------------------
(* GtpEvaluator::GtpClient::Send (lines 799-825)                           *)
(*                                                                         *)
(* A line is the sequence of its characters, the final "\n" included, as   *)
(* getline() hands it over.  Lines are shorter than the 100 bytes of       *)
(* `buffer`, so getline() never has to reallocate.  The subprocess is the  *)
(* environment: it writes whole lines, may fall silent with its output     *)
(* still open, or may close its output.  A write is modelled at the moment *)
(* the line reaches the head of the pipe, so s_pipe holds one line.        *)

\* Longest line the subprocess writes, the "\n" not counted.
MaxLineLen == 3

\* Characters a line is made of: the two reply markers, a blank and a
\* character that is neither a marker nor white space.
Chars == {"=", "?", " ", "b"}

\* White space as absl::ascii_isspace sees it, among the characters used.
Whitespace == {" ", "\n"}

Lines ==
  UNION {{l \o <<"\n">> : l \in [1 .. n -> Chars]} : n \in 0 .. MaxLineLen}

NoLine == <<>>

\* absl::nullopt, and an optional that holds the string v.
Nullopt == [has_value |-> FALSE, value |-> <<>>]

Value(v) == [has_value |-> TRUE, value |-> v]

RECURSIVE StripLeading(_)
StripLeading(str) ==
  IF str # <<>> /\ Head(str) \in Whitespace
  THEN StripLeading(Tail(str))
  ELSE str

RECURSIVE StripTrailing(_)
StripTrailing(str) ==
  IF str # <<>> /\ str[Len(str)] \in Whitespace
  THEN StripTrailing(SubSeq(str, 1, Len(str) - 1))
  ELSE str

\* absl::StripAsciiWhitespace(&response), line 821.
StripAsciiWhitespace(str) == StripLeading(StripTrailing(str))

ReplyKeepsMarker(response) ==
  IF response = <<>>
  THEN [kind |-> "continue", result |-> Nullopt]
  ELSE IF Head(response) = "?"
  THEN [kind |-> "return", result |-> Nullopt]
  ELSE IF Head(response) = "="
  THEN [kind |-> "return", result |-> Value(StripAsciiWhitespace(response))]
  ELSE [kind |-> "continue", result |-> Nullopt]

\* The body of the for(;;) loop, lines 810-823, on the line `response`:
\* go round again, or return a value.
Reply(response) ==
  IF response = <<>>
  THEN [kind |-> "continue", result |-> Nullopt]
  ELSE IF Head(response) = "?"
  THEN [kind |-> "return", result |-> Nullopt]
  ELSE IF Head(response) = "="
  THEN [kind |-> "return",
        result |-> Value(StripAsciiWhitespace(Tail(response)))]
  ELSE [kind |-> "continue", result |-> Nullopt]

IsReplyLine(l) == l # <<>> /\ Head(l) \in {"=", "?"}

\* Lines 801-802: the request is written and flushed.
SendRequest ==
  /\ s_pc = "start"
  /\ s_pc' = "getline"
  /\ UNCHANGED <<s_sub, s_pipe, s_result, hist_s_reply, hist_s_skipped,
                 hist_s_taken>>
  /\ UNCHANGED send_frame

GetlineRetriesAtEof ==
  /\ s_pc = "getline"
  /\ s_pipe # NoLine \/ s_sub = "closed"
  /\ IF s_pipe # NoLine
     THEN LET r == Reply(s_pipe)
              ret == r.kind = "return"
          IN  /\ s_pipe' = NoLine
              /\ s_pc' = IF ret THEN "returned" ELSE "getline"
              /\ s_result' = IF ret THEN r.result ELSE s_result
              /\ hist_s_skipped' = (hist_s_skipped \/ ~ret)
              /\ hist_s_taken' =
                   IF hist_s_taken > 0 THEN 2
                   ELSE IF IsReplyLine(s_pipe) THEN 1 ELSE 0
     ELSE /\ s_pc' = "getline"
          /\ UNCHANGED <<s_pipe, s_result, hist_s_skipped, hist_s_taken>>
  /\ UNCHANGED <<s_sub, hist_s_reply>>
  /\ UNCHANGED send_frame

\* One turn of the loop, lines 809-823.  getline() blocks while the pipe is
\* empty and open.  At end of file it returns -1, and constructing
\* std::string(buffer, size_t(-1)) throws std::length_error, which nothing
\* catches: the process terminates.
Getline ==
  /\ s_pc = "getline"
  /\ s_pipe # NoLine \/ s_sub = "closed"
  /\ IF s_pipe # NoLine
     THEN LET r == Reply(s_pipe)
              ret == r.kind = "return"
          IN  /\ s_pipe' = NoLine
              /\ s_pc' = IF ret THEN "returned" ELSE "getline"
              /\ s_result' = IF ret THEN r.result ELSE s_result
              /\ hist_s_skipped' = (hist_s_skipped \/ ~ret)
              /\ hist_s_taken' =
                   IF hist_s_taken > 0 THEN 2
                   ELSE IF IsReplyLine(s_pipe) THEN 1 ELSE 0
     ELSE /\ s_pc' = "failed"
          /\ UNCHANGED <<s_pipe, s_result, hist_s_skipped, hist_s_taken>>
  /\ UNCHANGED <<s_sub, hist_s_reply>>
  /\ UNCHANGED send_frame

\* The subprocess writes one line.
SubprocessWrite ==
  /\ s_sub = "running"
  /\ s_pipe = NoLine
  /\ \E l \in Lines :
       /\ s_pipe' = l
       /\ hist_s_reply' =
            IF hist_s_reply = NoLine /\ IsReplyLine(l)
            THEN l
            ELSE hist_s_reply
  /\ UNCHANGED <<s_sub, s_pc, s_result, hist_s_skipped, hist_s_taken>>
  /\ UNCHANGED send_frame

\* The subprocess hangs: it writes nothing more and keeps its output open.
SubprocessHangs ==
  /\ s_sub = "running"
  /\ s_sub' = "silent"
  /\ UNCHANGED <<s_pipe, s_pc, s_result, hist_s_reply, hist_s_skipped,
                 hist_s_taken>>
  /\ UNCHANGED send_frame

\* The subprocess closes its output (or exits).
SubprocessCloses ==
  /\ s_sub = "running"
  /\ s_sub' = "closed"
  /\ UNCHANGED <<s_pipe, s_pc, s_result, hist_s_reply, hist_s_skipped,
                 hist_s_taken>>
  /\ UNCHANGED send_frame

\* No call of Send in progress, no subprocess output.
SendIdle ==
  /\ s_sub = "running"
  /\ s_pipe = NoLine
  /\ s_pc = "start"
  /\ s_result = Nullopt
  /\ hist_s_reply = NoLine
  /\ hist_s_skipped = FALSE
  /\ hist_s_taken = 0

----------------------------------------------------------------------------
(* GtpEvaluator (lines 832-923) and GtpClient::Play, GenMove, Name         *)
(*                                                                         *)
(* Each worker has its own gtp_client and subprocess.  Here a call of Send *)
(* is one step: the subprocess answers the request with one reply line and *)
(* Send returns Reply(line).result (SendSpec has Send line by line).       *)
(* A move in KGS notation is one character: "b" a point of the board, "r"  *)
(* the resign literal.                                                     *)

\* Run(), lines 845-846: the two EvalResults objects.
Results == {"mcts_results", "gtp_results"}

OtherColor(c) == IF c = "B" THEN "W" ELSE "B"

NoColor == "none"

\* Coord::kInvalid
kInvalid == "invalid"

\* Run(), lines 848-857: black_results starts as &mcts_results and the two
\* pointers are swapped after every thread, so the engine is black in the
\* odd threads.
gtp_is_black(t) == t % 2 # 0

black_results_unswapped(t) == "mcts_results"

black_results(t) == IF gtp_is_black(t) THEN "gtp_results" ELSE "mcts_results"

white_results(t) == IF gtp_is_black(t) THEN "mcts_results" ELSE "gtp_results"

\* Reply lines of the subprocess to boardsize, komi and play.
AckReplies == {<<"=", "\n">>, <<"?", "\n">>}

\* Reply lines to genmove: a point, resign, an empty payload, a failure.
GenMoveReplies ==
  {<<"=", " ", "b", "\n">>, <<"=", " ", "r", "\n">>, <<"=", "\n">>,
   <<"?", "\n">>}

\* Reply lines to name.
NameReplies == {<<"=", " ", "b", "\n">>, <<"?", "\n">>}

\* Send(msg) when the subprocess answers with the reply line `line`.
Send(line) == Reply(line).result

\* Coord::FromKgs(str, true): the move, or kInvalid for what is no move.
FromKgs(str) ==
  IF str = <<"b">> THEN "play"
  ELSE IF str = <<"r">> THEN "resign"
  ELSE kInvalid

\* An MG_CHECK failed in some worker: the process has aborted.
GtpAborted == \E t \in Threads : g_pc[t] = "fatal"

\* Lines 874-885: the worker's players; GtpClient::GtpClient (734-765)
\* starts black and requires both boardsize and komi to be accepted.
Construct(t) ==
  /\ ~GtpAborted
  /\ g_pc[t] = "start"
  /\ \E boardsize \in AckReplies, komi_reply \in AckReplies :
       LET ok == Send(boardsize).has_value /\ Send(komi_reply).has_value
       IN  /\ g_pc' = [g_pc EXCEPT ![t] =
                 IF ~ok THEN "fatal"
                 ELSE IF t = 0 THEN "name"
                 ELSE IF gtp_is_black(t) THEN "genmove"
                 ELSE "while"]
           /\ hist_g_cmd' = [hist_g_cmd EXCEPT ![t] =
                 [cmd |-> "komi", color |-> NoColor]]
           /\ hist_g_reply' = [hist_g_reply EXCEPT ![t] =
                 IF Send(boardsize).has_value THEN komi_reply ELSE boardsize]
  /\ color_' = [color_ EXCEPT ![t] = "B"]
  /\ UNCHANGED <<mcts_player, g_move, success, name, gtp_black_wins,
                 gtp_white_wins, name_tmp, sgf_dir, hist_g_failed>>
  /\ UNCHANGED gtp_frame

\* Lines 887-889, thread 0: MG_CHECK(!gtp_is_black), then Name() (line 796)
\* returns its string and the assignment to white_results->name begins.
Name(t) ==
  /\ ~GtpAborted
  /\ g_pc[t] = "name"
  /\ \E line \in NameReplies :
       /\ name_tmp' = IF Send(line).has_value
                      THEN Send(line).value
                      ELSE "<unknown>"
       /\ hist_g_reply' = [hist_g_reply EXCEPT ![t] = line]
  /\ g_pc' = [g_pc EXCEPT ![t] = IF gtp_is_black(t) THEN "fatal" ELSE "assign"]
  /\ hist_g_cmd' = [hist_g_cmd EXCEPT ![t] =
       [cmd |-> "name", color |-> NoColor]]
  /\ UNCHANGED <<color_, mcts_player, g_move, success, name, gtp_black_wins,
                 gtp_white_wins, sgf_dir, hist_g_failed>>
  /\ UNCHANGED gtp_frame

\* Line 889: the assignment to white_results->name is complete.  No lock is
\* held and std::string is not atomic.
AssignName(t) ==
  /\ ~GtpAborted
  /\ g_pc[t] = "assign"
  /\ name' = [name EXCEPT ![white_results(t)] = name_tmp]
  /\ g_pc' = [g_pc EXCEPT ![t] = IF gtp_is_black(t) THEN "genmove" ELSE "while"]
  /\ UNCHANGED <<color_, mcts_player, g_move, success, gtp_black_wins,
                 gtp_white_wins, name_tmp, sgf_dir, hist_g_cmd, hist_g_reply,
                 hist_g_failed>>
  /\ UNCHANGED gtp_frame

GenMoveKeepsColor(t) ==
  /\ ~GtpAborted
  /\ g_pc[t] = "genmove"
  /\ \E line \in GenMoveReplies :
       LET response == Send(line)
           mv == IF response.has_value
                 THEN FromKgs(response.value)
                 ELSE kInvalid
       IN  /\ g_move' = [g_move EXCEPT ![t] = mv]
           /\ color_' = color_
           /\ hist_g_reply' = [hist_g_reply EXCEPT ![t] = line]
  /\ g_pc' = [g_pc EXCEPT ![t] = "genplay"]
  /\ hist_g_cmd' = [hist_g_cmd EXCEPT ![t] =
       [cmd |-> "genmove", color |-> color_[t]]]
  /\ UNCHANGED <<mcts_player, success, name, gtp_black_wins, gtp_white_wins,
                 name_tmp, sgf_dir, hist_g_failed>>
  /\ UNCHANGED gtp_frame

\* GtpClient::GenMove, lines 783-794, called at line 893 or 905.
GenMove(t) ==
  /\ ~GtpAborted
  /\ g_pc[t] = "genmove"
  /\ \E line \in GenMoveReplies :
       LET response == Send(line)
           mv == IF response.has_value
                 THEN FromKgs(response.value)
                 ELSE kInvalid
       IN  /\ g_move' = [g_move EXCEPT ![t] = mv]
           /\ color_' = [color_ EXCEPT ![t] =
                 IF mv # kInvalid THEN OtherColor(color_[t]) ELSE color_[t]]
           /\ hist_g_reply' = [hist_g_reply EXCEPT ![t] = line]
  /\ g_pc' = [g_pc EXCEPT ![t] = "genplay"]
  /\ hist_g_cmd' = [hist_g_cmd EXCEPT ![t] =
       [cmd |-> "genmove", color |-> color_[t]]]
  /\ UNCHANGED <<mcts_player, success, name, gtp_black_wins, gtp_white_wins,
                 name_tmp, sgf_dir, hist_g_failed>>
  /\ UNCHANGED gtp_frame

\* Lines 893 and 905: mcts_player->PlayMove(<what GenMove returned>).  What
\* MctsPlayer does with Coord::kInvalid is not part of this file: the worker
\* is taken to go no further.
PlayGenMove(t) ==
  /\ ~GtpAborted
  /\ g_pc[t] = "genplay"
  /\ IF g_move[t] = kInvalid
     THEN /\ g_pc' = [g_pc EXCEPT ![t] = "invalid"]
          /\ UNCHANGED mcts_player
     ELSE /\ g_pc' = [g_pc EXCEPT ![t] = "while"]
          /\ mcts_player' = [mcts_player EXCEPT ![t] = PlayMove(@, g_move[t])]
  /\ g_move' = [g_move EXCEPT ![t] = NoMove]
  /\ UNCHANGED <<color_, success, name, gtp_black_wins, gtp_white_wins,
                 name_tmp, sgf_dir, hist_g_cmd, hist_g_reply, hist_g_failed>>
  /\ UNCHANGED gtp_frame

\* Line 896: while (!mcts_player->root()->game_over())
GtpWhile(t) ==
  /\ ~GtpAborted
  /\ g_pc[t] = "while"
  /\ g_pc' = [g_pc EXCEPT ![t] =
       IF game_over(mcts_player[t]) THEN "count" ELSE "suggest"]
  /\ UNCHANGED <<color_, mcts_player, g_move, success, name, gtp_black_wins,
                 gtp_white_wins, name_tmp, sgf_dir, hist_g_cmd, hist_g_reply,
                 hist_g_failed>>
  /\ UNCHANGED gtp_frame

\* Line 897: auto move = mcts_player->SuggestMove()
GtpSuggestMove(t) ==
  /\ ~GtpAborted
  /\ g_pc[t] = "suggest"
  /\ \E m \in Moves : g_move' = [g_move EXCEPT ![t] = m]
  /\ g_pc' = [g_pc EXCEPT ![t] = "play"]
  /\ UNCHANGED <<color_, mcts_player, success, name, gtp_black_wins,
                 gtp_white_wins, name_tmp, sgf_dir, hist_g_cmd, hist_g_reply,
                 hist_g_failed>>
  /\ UNCHANGED gtp_frame

PlayAlwaysFlips(t) ==
  /\ ~GtpAborted
  /\ g_pc[t] = "play"
  /\ \E line \in AckReplies :
       LET ok == Send(line).has_value
       IN  /\ success' = [success EXCEPT ![t] = ok]
           /\ color_' = [color_ EXCEPT ![t] = OtherColor(color_[t])]
           /\ hist_g_reply' = [hist_g_reply EXCEPT ![t] = line]
           /\ hist_g_failed' = [hist_g_failed EXCEPT ![t] = @ \/ ~ok]
  /\ g_pc' = [g_pc EXCEPT ![t] = "played"]
  /\ hist_g_cmd' = [hist_g_cmd EXCEPT ![t] =
       [cmd |-> "play", color |-> color_[t]]]
  /\ UNCHANGED <<mcts_player, g_move, name, gtp_black_wins, gtp_white_wins,
                 name_tmp, sgf_dir>>
  /\ UNCHANGED gtp_frame

\* GtpClient::Play, lines 773-781, called at line 898.
Play(t) ==
  /\ ~GtpAborted
  /\ g_pc[t] = "play"
  /\ \E line \in AckReplies :
       LET ok == Send(line).has_value
       IN  /\ success' = [success EXCEPT ![t] = ok]
           /\ color_' = [color_ EXCEPT ![t] =
                 IF ok THEN OtherColor(color_[t]) ELSE color_[t]]
           /\ hist_g_reply' = [hist_g_reply EXCEPT ![t] = line]
           /\ hist_g_failed' = [hist_g_failed EXCEPT ![t] = @ \/ ~ok]
  /\ g_pc' = [g_pc EXCEPT ![t] = "played"]
  /\ hist_g_cmd' = [hist_g_cmd EXCEPT ![t] =
       [cmd |-> "play", color |-> color_[t]]]
  /\ UNCHANGED <<mcts_player, g_move, name, gtp_black_wins, gtp_white_wins,
                 name_tmp, sgf_dir>>
  /\ UNCHANGED gtp_frame

PlayMctsMoveKeepsMove(t) ==
  /\ ~GtpAborted
  /\ g_pc[t] = "played"
  /\ LET mv == g_move[t]
         p == PlayMove(mcts_player[t], mv)
     IN  /\ mcts_player' = [mcts_player EXCEPT ![t] = p]
         /\ g_pc' = [g_pc EXCEPT ![t] =
              IF game_over(p) THEN "count" ELSE "genmove"]
  /\ g_move' = [g_move EXCEPT ![t] = NoMove]
  /\ success' = [success EXCEPT ![t] = TRUE]
  /\ UNCHANGED <<color_, name, gtp_black_wins, gtp_white_wins, name_tmp,
                 sgf_dir, hist_g_cmd, hist_g_reply, hist_g_failed>>
  /\ UNCHANGED gtp_frame

\* Lines 898-904: a play the engine refused becomes Coord::kResign; the
\* move is played on mcts_player; the loop is left if the game is over.
PlayMctsMove(t) ==
  /\ ~GtpAborted
  /\ g_pc[t] = "played"
  /\ LET mv == IF ~success[t] THEN "resign" ELSE g_move[t]
         p == PlayMove(mcts_player[t], mv)
     IN  /\ mcts_player' = [mcts_player EXCEPT ![t] = p]
         /\ g_pc' = [g_pc EXCEPT ![t] =
              IF game_over(p) THEN "count" ELSE "genmove"]
  /\ g_move' = [g_move EXCEPT ![t] = NoMove]
  /\ success' = [success EXCEPT ![t] = TRUE]
  /\ UNCHANGED <<color_, name, gtp_black_wins, gtp_white_wins, name_tmp,
                 sgf_dir, hist_g_cmd, hist_g_reply, hist_g_failed>>
  /\ UNCHANGED gtp_frame

\* Lines 908-916: the two atomic increments, then the test of FLAGS_sgf_dir;
\* with an SGF directory the worker starts reading both names (lines 917-921).
Count(t) ==
  /\ ~GtpAborted
  /\ g_pc[t] = "count"
  /\ gtp_black_wins' =
       IF result(mcts_player[t]) > 0
       THEN [gtp_black_wins EXCEPT ![black_results(t)] = @ + 1]
       ELSE gtp_black_wins
  /\ gtp_white_wins' =
       IF result(mcts_player[t]) < 0
       THEN [gtp_white_wins EXCEPT ![white_results(t)] = @ + 1]
       ELSE gtp_white_wins
  /\ g_pc' = [g_pc EXCEPT ![t] = IF sgf_dir THEN "sgf" ELSE "done"]
  /\ UNCHANGED <<color_, mcts_player, g_move, success, name, name_tmp,
                 sgf_dir, hist_g_cmd, hist_g_reply, hist_g_failed>>
  /\ UNCHANGED gtp_frame

\* Lines 917-921: both names have been read and the SGF file is written.
WriteSgf(t) ==
  /\ ~GtpAborted
  /\ g_pc[t] = "sgf"
  /\ g_pc' = [g_pc EXCEPT ![t] = "done"]
  /\ UNCHANGED <<color_, mcts_player, g_move, success, name, gtp_black_wins,
                 gtp_white_wins, name_tmp, sgf_dir, hist_g_cmd, hist_g_reply,
                 hist_g_failed>>
  /\ UNCHANGED gtp_frame

\* Run(), lines 845-846, before any worker is started: mcts_results is named
\* after the model, gtp_results has the empty name.
GtpIdle ==
  /\ g_pc = [t \in Threads |-> "start"]
  /\ color_ = [t \in Threads |-> "B"]
  /\ mcts_player = [t \in Threads |-> <<>>]
  /\ g_move = [t \in Threads |-> NoMove]
  /\ success = [t \in Threads |-> TRUE]
  /\ name = [r \in Results |-> IF r = "mcts_results" THEN "model" ELSE ""]
  /\ gtp_black_wins = [r \in Results |-> 0]
  /\ gtp_white_wins = [r \in Results |-> 0]
  /\ name_tmp = ""
  /\ sgf_dir = FALSE
  /\ hist_g_cmd = [t \in Threads |-> [cmd |-> "none", color |-> NoColor]]
  /\ hist_g_reply = [t \in Threads |-> NoLine]
  /\ hist_g_failed = [t \in Threads |-> FALSE]

----------------------------------------------------------------------------
(* SelfPlayer (lines 348-530): ThreadRun, GameOptions::Init and            *)
(* MaybeReloadFlags                                                        *)
(*                                                                         *)
(* A worker holds mutex_ from line 417 to line 425.  As for the barrier, a *)
(* step that takes mutex_ runs up to the next access of the flag file or   *)
(* of a flag: the check of the modification time, the read of the file and *)
(* each SetCommandLineOption are steps, and the last step releases mutex_. *)
(* LogEndGameInfo and the holdout draw take mutex_ within one step each.   *)
(* A flag file names two of the flags modelled, the same two in all its    *)
(* versions; SetCommandLineOption here takes a line already split into     *)
(* name and value (FlagLineSpec has the handling of the text of a line).   *)
(* The flag file is the environment's: it can be rewritten at any time.    *)
(* Flag values are 0 and 1: false and true, two percentages, two paths, an *)
(* empty and a well-formed Bigtable specification.                         *)

\* Most rewrites of the flag file in one run.
MaxWrites == 1

\* The flags modelled: two that GameOptions::Init copies (lines 383, 384),
\* FLAGS_model (line 418) and FLAGS_output_bigtable (line 405).
FlagNames == {"run_forever", "holdout_pct", "model", "output_bigtable"}

FlagValues == {0, 1}

\* No flag value: a local that does not exist at this point.
NoFlag == 0 - 1

\* An override line --name=value of the flag file.
Overrides == [name : FlagNames, value : FlagValues]

\* The flags the flag file of one run can name: any two.
HotSets == {H \in SUBSET FlagNames : \E a, b \in FlagNames : a # b /\ H = {a, b}}

\* What a flag file naming flags of H can hold: override lines in any
\* order, each flag named at most once.
FileContents(H) ==
  {c \in UNION {[1 .. n -> [name : H, value : FlagValues]] :
                  n \in 0 .. Cardinality(H)} :
     \A i, j \in DOMAIN c : i # j => c[i].name # c[j].name}

\* A GameOptions on which Init has not run yet (line 403).
NoOptions == [run_forever |-> 0 - 1, holdout_pct |-> 0 - 1]

\* An MG_CHECK failed in some worker: the process has aborted.
SelfAborted == \E t \in Threads : sp_pc[t] = "fatal"

\* Another worker's next step sets the flag f.
BeingSet(t, f) ==
  \E u \in Threads \ {t} :
    /\ sp_pc[u] = "apply"
    /\ lines[u] # <<>>
    /\ Head(lines[u]).name = f

\* Lines 400-411: FLAGS_output_bigtable is read, with no lock held, before the
\* loop.  What is read decides only whether games also go to Bigtable, which
\* is not modelled.
Start(t) ==
  /\ ~SelfAborted
  /\ sp_pc[t] = "start"
  /\ sp_pc' = [sp_pc EXCEPT ![t] = "lock"]
  /\ UNCHANGED <<sp_mutex, FLAGS, flags_path, flags_timestamp_, file, lines,
                 game_options, old_model, hot_flags, hist_stable,
                 hist_unmodified, hist_loader, hist_old_model>>
  /\ UNCHANGED self_frame

MaybeReloadFlagsUnguarded(t) ==
  /\ ~SelfAborted
  /\ sp_pc[t] = "lock"
  /\ sp_mutex' = t
  /\ old_model' = [old_model EXCEPT ![t] = FLAGS["model"]]
  /\ hist_old_model' = [hist_old_model EXCEPT ![t] = FLAGS["model"]]
  /\ IF ~flags_path \/ file.mtime = flags_timestamp_
     THEN /\ sp_pc' = [sp_pc EXCEPT ![t] = "init"]
          /\ UNCHANGED <<flags_timestamp_, hist_loader>>
     ELSE /\ sp_pc' = [sp_pc EXCEPT ![t] = "read"]
          /\ flags_timestamp_' = file.mtime
          /\ hist_loader' = t
  /\ hist_unmodified' = TRUE
  /\ UNCHANGED <<FLAGS, flags_path, file, lines, game_options, hot_flags,
                 hist_stable>>
  /\ UNCHANGED self_frame

MaybeReloadFlagsKeepsTimestamp(t) ==
  /\ ~SelfAborted
  /\ sp_pc[t] = "lock"
  /\ sp_mutex = NoThread
  /\ sp_mutex' = t
  /\ old_model' = [old_model EXCEPT ![t] = FLAGS["model"]]
  /\ hist_old_model' = [hist_old_model EXCEPT ![t] = FLAGS["model"]]
  /\ IF ~flags_path \/ file.mtime = flags_timestamp_
     THEN /\ sp_pc' = [sp_pc EXCEPT ![t] = "init"]
          /\ UNCHANGED <<flags_timestamp_, hist_loader>>
     ELSE /\ sp_pc' = [sp_pc EXCEPT ![t] = "read"]
          /\ UNCHANGED flags_timestamp_
          /\ hist_loader' = t
  /\ hist_unmodified' = TRUE
  /\ UNCHANGED <<FLAGS, flags_path, file, lines, game_options, hot_flags,
                 hist_stable>>
  /\ UNCHANGED self_frame

\* Line 417 takes mutex_, line 418 saves FLAGS_model; MaybeReloadFlags, lines
\* 486-499: return if no path is set or the file's modification time is the
\* recorded one; otherwise record the new time.
MaybeReloadFlags(t) ==
  /\ ~SelfAborted
  /\ sp_pc[t] = "lock"
  /\ sp_mutex = NoThread
  /\ sp_mutex' = t
  /\ old_model' = [old_model EXCEPT ![t] = FLAGS["model"]]
  /\ hist_old_model' = [hist_old_model EXCEPT ![t] = FLAGS["model"]]
  /\ IF ~flags_path \/ file.mtime = flags_timestamp_
     THEN /\ sp_pc' = [sp_pc EXCEPT ![t] = "init"]
          /\ UNCHANGED <<flags_timestamp_, hist_loader>>
     ELSE /\ sp_pc' = [sp_pc EXCEPT ![t] = "read"]
          /\ flags_timestamp_' = file.mtime
          /\ hist_loader' = t
  /\ hist_unmodified' = TRUE
  /\ UNCHANGED <<FLAGS, flags_path, file, lines, game_options, hot_flags,
                 hist_stable>>
  /\ UNCHANGED self_frame

\* Lines 500-506: ReadFile and the split into lines.
ReadFile(t) ==
  /\ ~SelfAborted
  /\ sp_pc[t] = "read"
  /\ lines' = [lines EXCEPT ![t] = file.contents]
  /\ sp_pc' = [sp_pc EXCEPT ![t] = "apply"]
  /\ UNCHANGED <<sp_mutex, FLAGS, flags_path, flags_timestamp_, file,
                 game_options, old_model, hot_flags, hist_stable,
                 hist_unmodified, hist_loader, hist_old_model>>
  /\ UNCHANGED self_frame

SetCommandLineOptionInPlace(t) ==
  /\ ~SelfAborted
  /\ sp_pc[t] = "apply"
  /\ IF lines[t] = <<>>
     THEN /\ sp_pc' = [sp_pc EXCEPT ![t] = "init"]
          /\ hist_stable' = FLAGS
          /\ UNCHANGED <<FLAGS, lines, game_options>>
     ELSE /\ FLAGS' = [FLAGS EXCEPT ![Head(lines[t]).name] =
                         Head(lines[t]).value]
          /\ lines' = [lines EXCEPT ![t] = Tail(@)]
          /\ game_options' = [u \in Threads |->
               IF game_options[u] = NoOptions
               THEN NoOptions
               ELSE [run_forever |-> FLAGS'["run_forever"],
                     holdout_pct |-> FLAGS'["holdout_pct"]]]
          /\ UNCHANGED <<sp_pc, hist_stable>>
  /\ UNCHANGED <<sp_mutex, flags_path, flags_timestamp_, file, old_model,
                 hot_flags, hist_unmodified, hist_loader, hist_old_model>>
  /\ UNCHANGED self_frame

\* Lines 508-522: one turn of the loop over the lines, which sets one flag;
\* after the last line MaybeReloadFlags returns.
SetCommandLineOption(t) ==
  /\ ~SelfAborted
  /\ sp_pc[t] = "apply"
  /\ IF lines[t] = <<>>
     THEN /\ sp_pc' = [sp_pc EXCEPT ![t] = "init"]
          /\ hist_stable' = FLAGS
          /\ UNCHANGED <<FLAGS, lines>>
     ELSE /\ FLAGS' = [FLAGS EXCEPT ![Head(lines[t]).name] =
                         Head(lines[t]).value]
          /\ lines' = [lines EXCEPT ![t] = Tail(@)]
          /\ UNCHANGED <<sp_pc, hist_stable>>
  /\ UNCHANGED <<sp_mutex, flags_path, flags_timestamp_, file, game_options,
                 old_model, hot_flags, hist_unmodified, hist_loader,
                 hist_old_model>>
  /\ UNCHANGED self_frame

GameOptionsInitUnchecked(t) ==
  /\ ~SelfAborted
  /\ sp_pc[t] = "init"
  /\ IF FALSE
     THEN /\ sp_pc' = [sp_pc EXCEPT ![t] = "fatal"]
          /\ UNCHANGED <<sp_mutex, game_options, old_model, hist_old_model>>
     ELSE /\ game_options' = [game_options EXCEPT ![t] =
               [run_forever |-> FLAGS["run_forever"],
                holdout_pct |-> FLAGS["holdout_pct"]]]
          /\ sp_mutex' = NoThread
          /\ sp_pc' = [sp_pc EXCEPT ![t] = "play"]
          /\ old_model' = [old_model EXCEPT ![t] = NoFlag]
          /\ hist_old_model' = [hist_old_model EXCEPT ![t] = NoFlag]
  /\ UNCHANGED <<FLAGS, flags_path, flags_timestamp_, file, lines, hot_flags,
                 hist_stable, hist_unmodified, hist_loader>>
  /\ UNCHANGED self_frame

\* Lines 420-425: MG_CHECK(old_model == FLAGS_model) aborts the process;
\* otherwise GameOptions::Init (lines 373-388) copies the flags, the player is
\* made and mutex_ is released.
GameOptionsInit(t) ==
  /\ ~SelfAborted
  /\ sp_pc[t] = "init"
  /\ IF old_model[t] # FLAGS["model"]
     THEN /\ sp_pc' = [sp_pc EXCEPT ![t] = "fatal"]
          /\ UNCHANGED <<sp_mutex, game_options, old_model, hist_old_model>>
     ELSE /\ game_options' = [game_options EXCEPT ![t] =
               [run_forever |-> FLAGS["run_forever"],
                holdout_pct |-> FLAGS["holdout_pct"]]]
          /\ sp_mutex' = NoThread
          /\ sp_pc' = [sp_pc EXCEPT ![t] = "play"]
          /\ old_model' = [old_model EXCEPT ![t] = NoFlag]
          /\ hist_old_model' = [hist_old_model EXCEPT ![t] = NoFlag]
  /\ UNCHANGED <<FLAGS, flags_path, flags_timestamp_, file, lines, hot_flags,
                 hist_stable, hist_unmodified, hist_loader>>
  /\ UNCHANGED self_frame

\* Lines 428-447: the game is played to its end, then LogEndGameInfo runs
\* with mutex_ held.
PlayGame(t) ==
  /\ ~SelfAborted
  /\ sp_pc[t] = "play"
  /\ sp_mutex = NoThread
  /\ sp_pc' = [sp_pc EXCEPT ![t] = "holdout"]
  /\ UNCHANGED <<sp_mutex, FLAGS, flags_path, flags_timestamp_, file, lines,
                 game_options, old_model, hot_flags, hist_stable,
                 hist_unmodified, hist_loader, hist_old_model>>
  /\ UNCHANGED self_frame

WriteOutputsByFlags(t) ==
  /\ ~SelfAborted
  /\ sp_pc[t] = "holdout"
  /\ sp_mutex = NoThread
  /\ sp_pc' = [sp_pc EXCEPT ![t] =
       IF FLAGS["run_forever"] = 1 THEN "lock" ELSE "stopped"]
  /\ UNCHANGED <<sp_mutex, FLAGS, flags_path, flags_timestamp_, file, lines,
                 game_options, old_model, hot_flags, hist_stable,
                 hist_unmodified, hist_loader, hist_old_model>>
  /\ UNCHANGED self_frame

\* Lines 453-481: the holdout draw with mutex_ held, the outputs, and the
\* test of game_options.run_forever.
WriteOutputs(t) ==
  /\ ~SelfAborted
  /\ sp_pc[t] = "holdout"
  /\ sp_mutex = NoThread
  /\ sp_pc' = [sp_pc EXCEPT ![t] =
       IF game_options[t].run_forever = 1 THEN "lock" ELSE "stopped"]
  /\ UNCHANGED <<sp_mutex, FLAGS, flags_path, flags_timestamp_, file, lines,
                 game_options, old_model, hot_flags, hist_stable,
                 hist_unmodified, hist_loader, hist_old_model>>
  /\ UNCHANGED self_frame

\* The flag file is rewritten: new lines, a later modification time.
WriteFlagFile ==
  /\ ~SelfAborted
  /\ flags_path
  /\ file.mtime <= MaxWrites
  /\ \E contents \in FileContents(hot_flags) :
       file' = [mtime |-> file.mtime + 1, contents |-> contents]
  /\ hist_unmodified' = FALSE
  /\ UNCHANGED <<sp_mutex, sp_pc, FLAGS, flags_path, flags_timestamp_, lines,
                 game_options, old_model, hot_flags, hist_stable, hist_loader,
                 hist_old_model>>
  /\ UNCHANGED self_frame

\* The flag values at start-up.
InitialFlags == [f \in FlagNames |-> 0]

\* No self-play: no worker started, no flag file.
SelfIdle ==
  /\ sp_mutex = NoThread
  /\ sp_pc = [t \in Threads |-> "start"]
  /\ FLAGS = InitialFlags
  /\ flags_path = FALSE
  /\ flags_timestamp_ = 0
  /\ file = [mtime |-> 1, contents |-> <<>>]
  /\ lines = [t \in Threads |-> <<>>]
  /\ game_options = [t \in Threads |-> NoOptions]
  /\ old_model = [t \in Threads |-> NoFlag]
  /\ hot_flags = {}
  /\ hist_stable = InitialFlags
  /\ hist_unmodified = FALSE
  /\ hist_loader = NoThread
  /\ hist_old_model = [t \in Threads |-> NoFlag]

----------------------------------------------------------------------------
(* NewDualNetFactory (lines 158-171): the batch size                       *)
(*                                                                         *)
(* The three operands are ints.  An int has IntBits bits here, not 32, so  *)
(* that the whole range can be searched.  Signed overflow is undefined:    *)
(* an operation whose exact result is no int can give any int.             *)

\* Bits of an int.
IntBits == 5

IntMax == 2 ^ (IntBits - 1) - 1

IntMin == 0 - 2 ^ (IntBits - 1)

Ints == IntMin .. IntMax

\* No batch size: NewDualNetFactory has not run.
NoBatch == IntMin - 1

\* What an int operation with the exact result x can give.
IntResults(x) == IF x \in Ints THEN {x} ELSE Ints

\* a / b on ints with b > 0: the quotient is truncated towards zero.
Quotient(a, b) == IF a >= 0 THEN a \div b ELSE 0 - ((0 - a) \div b)

\* std::max
Max(a, b) == IF a >= b THEN a ELSE b

\* Lines 166-169: what
\*   std::max((FLAGS_virtual_losses * num_parallel_games + buffer_count - 1)
\*            / buffer_count, FLAGS_virtual_losses)
\* can give for V virtual losses, W games and B buffers.
BatchSizes(V, W, B) ==
  UNION {{Max(Quotient(sum, B), V) : sum \in IntResults(p + B - 1)} :
           p \in IntResults(V * W)}

\* NewDualNetFactory, lines 165-170.
NewDualNetFactory ==
  /\ batch_size = NoBatch
  /\ batch_size' \in
       BatchSizes(virtual_losses, num_parallel_games, buffer_count)
  /\ UNCHANGED <<virtual_losses, num_parallel_games, buffer_count>>
  /\ UNCHANGED batch_frame

\* NewDualNetFactory is not running.
BatchIdle ==
  /\ virtual_losses = 1
  /\ num_parallel_games = 1
  /\ buffer_count = 1
  /\ batch_size = NoBatch

----------------------------------------------------------------------------
(* SelfPlayer::MaybeReloadFlags on one line of the flag file (lines        *)
(* 508-522)                                                                *)
(*                                                                         *)
(* A line is the sequence of its characters.  The split of the file at     *)
(* "\n" with absl::SkipEmpty() (line 504-505) gives lines that are not     *)
(* empty and hold no "\n".                                                 *)

\* Longest line of the flag file.
MaxFlagLineLen == 7

\* Characters of a line: the three that the code looks for, a blank, and a
\* character of a name or a value.
FlagChars == {"-", "=", "#", " ", "a"}

FlagLines == UNION {[1 .. n -> FlagChars] : n \in 1 .. MaxFlagLineLen}

\* The place of the first c in str, or 0.
Find(str, c) ==
  IF \E i \in 1 .. Len(str) : str[i] = c
  THEN CHOOSE i \in 1 .. Len(str) :
         str[i] = c /\ \A j \in 1 .. i - 1 : str[j] # c
  ELSE 0

\* absl::StrSplit(str, absl::MaxSplits(c, 1)) as a std::pair: what is
\* before the first c and what is after it; without a c, all of str and the
\* empty string.
SplitPair(str, c) ==
  IF Find(str, c) = 0
  THEN <<str, <<>>>>
  ELSE <<SubSeq(str, 1, Find(str, c) - 1),
         SubSeq(str, Find(str, c) + 1, Len(str))>>

\* What becomes of a line: it is skipped, the MG_CHECK of line 515 fails,
\* or SetCommandLineOption(flag, value) is called.
Skipped == [kind |-> "continue", flag |-> <<>>, value |-> <<>>]

Fatal == [kind |-> "fatal", flag |-> <<>>, value |-> <<>>]

Set(flag, value) == [kind |-> "set", flag |-> flag, value |-> value]

NoOutcome == [kind |-> "none", flag |-> <<>>, value |-> <<>>]

ReloadLineKeepsComment(l) ==
  LET stripped == StripAsciiWhitespace(l)
      flag_value_pair == SplitPair(stripped, "=")
  IN  IF stripped = <<>>
      THEN Skipped
      ELSE IF ~(Len(stripped) > 2 /\ stripped[1] = "-" /\ stripped[2] = "-")
      THEN Fatal
      ELSE Set(SubSeq(flag_value_pair[1], 3, Len(flag_value_pair[1])),
               flag_value_pair[2])

\* The body of the loop over the lines, lines 509-521.
ReloadLine(l) ==
  LET line_comment == SplitPair(l, "#")
      stripped == StripAsciiWhitespace(line_comment[1])
      flag_value_pair == SplitPair(stripped, "=")
  IN  IF stripped = <<>>
      THEN Skipped
      ELSE IF ~(Len(stripped) > 2 /\ stripped[1] = "-" /\ stripped[2] = "-")
      THEN Fatal
      ELSE Set(SubSeq(flag_value_pair[1], 3, Len(flag_value_pair[1])),
               flag_value_pair[2])

\* One turn of the loop.
ApplyLine ==
  /\ flag_value = NoOutcome
  /\ flag_value' = ReloadLine(flag_line)
  /\ UNCHANGED flag_line
  /\ UNCHANGED flag_line_frame

\* No line is being handled.
FlagLineIdle ==
  /\ flag_line = <<>>
  /\ flag_value = NoOutcome

----------------------------------------------------------------------------
(* Puzzle (lines 961-1027) on one recorded game                            *)

\* Most main-line moves of the recorded game.
MaxPuzzleMoves == 3

\* The points of the board that moves are made on.
Coords == {"a", "b"}

Games == UNION {[1 .. n -> Coords] : n \in 0 .. MaxPuzzleMoves}

PuzzleBuildPlaysFirst ==
  /\ pz_pc = "build"
  /\ Len(puzzles) < Len(moves)
  /\ LET mv == moves[Len(puzzles) + 1]
         played == [i \in 1 .. Len(players) |-> PlayMove(players[i], mv)]
     IN  /\ puzzles' = Append(puzzles,
               [player |-> played[Len(played)], answer |-> mv])
         /\ players' = SubSeq(played, 1, Len(played) - 1)
  /\ UNCHANGED <<moves, pz_pc, pz_result, pz_done, hist_pz_suggest>>
  /\ UNCHANGED puzzle_frame

\* Lines 1000-1006, one turn of the loop over the moves: the last player
\* and the move make a puzzle, and the move is played on the players left.
PuzzleBuild ==
  /\ pz_pc = "build"
  /\ Len(puzzles) < Len(moves)
  /\ LET mv == moves[Len(puzzles) + 1]
     IN  /\ puzzles' = Append(puzzles,
               [player |-> players[Len(players)], answer |-> mv])
         /\ players' = [i \in 1 .. Len(players) - 1 |->
               PlayMove(players[i], mv)]
  /\ UNCHANGED <<moves, pz_pc, pz_result, pz_done, hist_pz_suggest>>
  /\ UNCHANGED puzzle_frame

\* Lines 1009-1020: after the last move, one thread per puzzle is started.
PuzzleStartThreads ==
  /\ pz_pc = "build"
  /\ Len(puzzles) = Len(moves)
  /\ pz_pc' = "run"
  /\ UNCHANGED <<moves, players, puzzles, pz_result, pz_done,
                 hist_pz_suggest>>
  /\ UNCHANGED puzzle_frame

\* Lines 1013-1017, the thread of puzzle i: one SuggestMove, and ++result
\* if it is the move of the puzzle.
PuzzleThread(i) ==
  /\ pz_pc = "run"
  /\ i \in (1 .. Len(puzzles)) \ pz_done
  /\ \E c \in Coords :
       /\ hist_pz_suggest' = [hist_pz_suggest EXCEPT ![i] = c]
       /\ pz_result' = IF c = puzzles[i].answer
                       THEN pz_result + 1
                       ELSE pz_result
  /\ pz_done' = pz_done \cup {i}
  /\ UNCHANGED <<moves, players, puzzles, pz_pc>>
  /\ UNCHANGED puzzle_frame

\* Lines 1021-1023: all threads are joined.
PuzzleJoin ==
  /\ pz_pc = "run"
  /\ pz_done = 1 .. Len(puzzles)
  /\ pz_pc' = "done"
  /\ UNCHANGED <<moves, players, puzzles, pz_result, pz_done,
                 hist_pz_suggest>>
  /\ UNCHANGED puzzle_frame

\* Lines 996-999 for a game with the moves g: a new player for every move.
PuzzleStart(g) ==
  /\ moves = g
  /\ players = [i \in 1 .. Len(g) |-> <<>>]
  /\ puzzles = <<>>
  /\ pz_pc = "build"
  /\ pz_result = 0
  /\ pz_done = {}
  /\ hist_pz_suggest = [i \in 1 .. MaxPuzzleMoves |-> NoMove]

\* No puzzles: no game has been loaded.
PuzzleIdle == PuzzleStart(<<>>)

OnceIdle == BatchIdle /\ FlagLineIdle /\ PuzzleIdle

----------------------------------------------------------------------------

\* Run(), lines 618-626: the barrier is made for num_games threads, which
\* are then started; each thread's locals do not exist yet.
PairInit ==
  /\ count_ = NumGames
  /\ num_waiting_ = 0
  /\ generation_ = 0
  /\ mutex_ = NoThread
  /\ cond_waiters = {}
  /\ pc = [t \in Threads |-> "start"]
  /\ site = [t \in Threads |-> "setup"]
  /\ generation = [t \in Threads |-> NoGen]
  /\ dual_net = [t \in Threads |-> NoNet]
  /\ factory = [t \in Threads |-> model(t)]
  /\ player = [t \in Threads |-> 1]
  /\ pos = [t \in Threads |-> <<<<>>, <<>>>>]
  /\ move = [t \in Threads |-> NoMove]
  /\ black_wins = [m \in Models |-> 0]
  /\ white_wins = [m \in Models |-> 0]
  /\ hist_suggests = [t \in Threads |-> 0]
  /\ hist_releaser = NoThread
  /\ hist_called = [t \in Threads |-> NoGen]
  /\ hist_black = [t \in Threads |-> NoNet]
  /\ komi \in KomiValues

Init == PairInit /\ SendIdle /\ GtpIdle /\ SelfIdle /\ OnceIdle

ThreadRun(t) ==
  \/ ThreadStart(t)
  \/ Setup(t)
  \/ While(t)
  \/ NewDualNet(t)
  \/ BarrierWait(t)
  \/ WaitReturn(t)
  \/ SuggestMove(t)
  \/ ResetDualNet(t)
  \/ PlayAndSwap(t)
  \/ DecrementCount(t)
  \/ DecrementReturn(t)
  \/ CheckAndCount(t)

Next == \E t \in Threads : ThreadRun(t)

Spec == Init /\ [][Next]_vars

\* Every started thread keeps being scheduled (std::thread, joined by Run).
FairSpec == Spec /\ \A t \in Threads : WF_vars(ThreadRun(t))

\* One call of Send against a subprocess that writes what it likes.
SendInit ==
  PairInit /\ komi = 0 /\ SendIdle /\ GtpIdle /\ SelfIdle /\ OnceIdle

SendNext ==
  \/ SendRequest
  \/ Getline
  \/ SubprocessWrite
  \/ SubprocessHangs
  \/ SubprocessCloses

SendSpec == SendInit /\ [][SendNext]_vars

\* The calling thread keeps running: it writes its request, and a getline()
\* that can return does.  Nothing is assumed of the subprocess.
FairSendSpec == SendSpec /\ WF_vars(SendRequest) /\ WF_vars(Getline)

\* GtpEvaluator::Run: the workers of an evaluation against a GTP engine,
\* with or without an SGF directory.
GtpInit ==
  /\ PairInit
  /\ SendIdle
  /\ SelfIdle
  /\ OnceIdle
  /\ g_pc = [t \in Threads |-> "start"]
  /\ color_ = [t \in Threads |-> "B"]
  /\ mcts_player = [t \in Threads |-> <<>>]
  /\ g_move = [t \in Threads |-> NoMove]
  /\ success = [t \in Threads |-> TRUE]
  /\ name = [r \in Results |-> IF r = "mcts_results" THEN "model" ELSE ""]
  /\ gtp_black_wins = [r \in Results |-> 0]
  /\ gtp_white_wins = [r \in Results |-> 0]
  /\ name_tmp = ""
  /\ sgf_dir \in BOOLEAN
  /\ hist_g_cmd = [t \in Threads |-> [cmd |-> "none", color |-> NoColor]]
  /\ hist_g_reply = [t \in Threads |-> NoLine]
  /\ hist_g_failed = [t \in Threads |-> FALSE]

GtpThreadRun(t) ==
  \/ Construct(t)
  \/ Name(t)
  \/ AssignName(t)
  \/ GenMove(t)
  \/ PlayGenMove(t)
  \/ GtpWhile(t)
  \/ GtpSuggestMove(t)
  \/ Play(t)
  \/ PlayMctsMove(t)
  \/ Count(t)
  \/ WriteSgf(t)

GtpNext == \E t \in Threads : GtpThreadRun(t)

GtpSpec == GtpInit /\ [][GtpNext]_vars

\* SelfPlayer::Run, lines 350-358: the workers are started with the flags
\* of the command line; a flag file, if any, exists with some lines.
SelfPlayInit ==
  /\ PairInit
  /\ komi = 0
  /\ SendIdle
  /\ GtpIdle
  /\ OnceIdle
  /\ sp_mutex = NoThread
  /\ sp_pc = [t \in Threads |-> "start"]
  /\ FLAGS = InitialFlags
  /\ flags_path \in BOOLEAN
  /\ flags_timestamp_ = 0
  /\ hot_flags \in (IF flags_path THEN HotSets ELSE {{}})
  /\ file \in [mtime : {1}, contents : FileContents(hot_flags)]
  /\ lines = [t \in Threads |-> <<>>]
  /\ game_options = [t \in Threads |-> NoOptions]
  /\ old_model = [t \in Threads |-> NoFlag]
  /\ hist_stable = FLAGS
  /\ hist_unmodified = FALSE
  /\ hist_loader = NoThread
  /\ hist_old_model = [t \in Threads |-> NoFlag]

SelfPlayThreadRun(t) ==
  \/ Start(t)
  \/ MaybeReloadFlags(t)
  \/ ReadFile(t)
  \/ SetCommandLineOption(t)
  \/ GameOptionsInit(t)
  \/ PlayGame(t)
  \/ WriteOutputs(t)

SelfPlayNext ==
  \/ \E t \in Threads : SelfPlayThreadRun(t)
  \/ WriteFlagFile

SelfPlaySpec == SelfPlayInit /\ [][SelfPlayNext]_vars

\* NewDualNetFactory on any three positive ints.
BatchInit ==
  /\ PairInit
  /\ komi = 0
  /\ SendIdle
  /\ GtpIdle
  /\ SelfIdle
  /\ FlagLineIdle
  /\ PuzzleIdle
  /\ virtual_losses \in 1 .. IntMax
  /\ num_parallel_games \in 1 .. IntMax
  /\ buffer_count \in 1 .. IntMax
  /\ batch_size = NoBatch

BatchNext == NewDualNetFactory

BatchSpec == BatchInit /\ [][BatchNext]_vars

\* MaybeReloadFlags on any line of the flag file.
FlagLineInit ==
  /\ PairInit
  /\ komi = 0
  /\ SendIdle
  /\ GtpIdle
  /\ SelfIdle
  /\ BatchIdle
  /\ PuzzleIdle
  /\ flag_line \in FlagLines
  /\ flag_value = NoOutcome

FlagLineNext == ApplyLine

FlagLineSpec == FlagLineInit /\ [][FlagLineNext]_vars

\* Puzzle on any recorded game.
PuzzleInit ==
  /\ PairInit
  /\ komi = 0
  /\ SendIdle
  /\ GtpIdle
  /\ SelfIdle
  /\ BatchIdle
  /\ FlagLineIdle
  /\ \E g \in Games : PuzzleStart(g)

PuzzleNext ==
  \/ PuzzleBuild
  \/ PuzzleStartThreads
  \/ \E i \in 1 .. MaxPuzzleMoves : PuzzleThread(i)
  \/ PuzzleJoin

PuzzleSpec == PuzzleInit /\ [][PuzzleNext]_vars

----------------------------------------------------------------------------
(* Properties                                                              *)

\* Positions of a thread inside Barrier::Wait (from the call to the return).
InWait(t) == pc[t] \in {"Wait", "WaitCv", "WaitExit"}

\* The thread has not called DecrementCount() yet.
Participating(t) == pc[t] \notin {"DecExit", "check", "done", "fatal"}

\* The number of Wait() calls the thread has made so far: a swapped worker
\* calls once before its first move, every worker once per move.
WaitCalls(t) ==
  (IF swap_models(t) /\ pc[t] # "start" THEN 1 ELSE 0)
  + Len(pos[t][1])
  + (IF (InWait(t) /\ site[t] = "suggest") \/ pc[t] \in {"suggest", "reset", "play"}
     THEN 1 ELSE 0)

\* The number of the move the thread's game is at (the move it is about to
\* suggest, or is suggesting and playing).
MoveNumber(t) == Len(pos[t][1]) + 1

\* The thread is in its move loop with the game not over.
StillPlaying(t) ==
  \/ pc[t] \in {"new", "suggest", "reset", "play"}
  \/ (InWait(t) /\ site[t] = "suggest")
  \/ (pc[t] = "while" /\ ~game_over(pos[t][player[t]]))

\* C1: a thread whose Wait() call was not the arrival that made
\* num_waiting_ equal to count_ does not finish Wait() before generation_
\* has advanced past the value it observed on entry.
C1_WaitBlocksUntilRelease ==
  \A t \in Threads :
    (pc[t] = "WaitExit" /\ generation[t] # NoGen) => generation_ > generation[t]

\* C2: lock-step.  Between two consecutive barrier releases every worker
\* starts SuggestMove at most once, and a worker about to start SuggestMove
\* has made no more Wait() calls than any worker still participating.
C2_LockStep ==
  /\ \A t \in Threads : hist_suggests[t] <= 1
  /\ \A t, u \in Threads :
       (pc[t] = "suggest" /\ Participating(u)) => WaitCalls(u) >= WaitCalls(t)

\* A thread called Wait() in a generation that has been released since.
ReleasedInWait(t) ==
  /\ pc[t] \in {"Wait", "WaitCv"}
  /\ hist_called[t] # NoGen
  /\ hist_called[t] < generation_

\* C3: a thread that is in Wait() for a generation that has been released
\* eventually returns from Wait().
C3_ReleasedEventuallyReturn ==
  \A t \in Threads : ReleasedInWait(t) ~> ~InWait(t)

\* C3 witness: a thread finishes a Wait() it had called before another
\* thread released the generation it called in.
C3_Witness ==
  \E t \in Threads :
    /\ pc[t] = "WaitExit"
    /\ hist_called[t] # NoGen
    /\ hist_called[t] < generation_
    /\ hist_releaser # t

\* C4: the barrier is reusable.  After each release num_waiting_ is 0, and
\* a Wait() of a later round (one that observed a generation >= 1) that is
\* not the count_-th arrival again blocks until that generation is released.
C4_Reusable ==
  /\ hist_releaser # NoThread => num_waiting_ = 0
  /\ \A t \in Threads :
       (pc[t] = "WaitExit" /\ generation[t] # NoGen /\ generation[t] >= 1)
         => generation_ > generation[t]

\* C5: DecrementCount() reduces count_ by one; if num_waiting_ equals the new
\* count_ it releases in the same call (generation_ advances, num_waiting_
\* becomes 0, every waiter is signalled), otherwise it changes only count_.
C5_DecrementCount ==
  [][\A t \in Threads :
       (pc[t] = "DecrementCount" /\ pc'[t] = "DecExit") =>
         /\ count_' = count_ - 1
         /\ IF num_waiting_ = count_'
            THEN /\ generation_' = generation_ + 1
                 /\ num_waiting_' = 0
                 /\ cond_waiters' = {}
            ELSE UNCHANGED <<generation_, num_waiting_, cond_waiters>>]_vars

\* C5 witness: a DecrementCount() call has just released the barrier while
\* another thread is still playing.
C5_Witness ==
  \E t \in Threads :
    /\ pc[t] = "DecExit"
    /\ hist_releaser = t
    /\ \E u \in Threads : StillPlaying(u)

\* C6: num_waiting_ never exceeds count_, and count_ never drops below zero.
C6_WaitingAtMostCount == num_waiting_ <= count_ /\ count_ >= 0

\* C6 witness: every worker has called DecrementCount() once.
C6_Witness == count_ = 0 /\ \A t \in Threads : ~Participating(t)

\* The step is a Wait() arrival or a DecrementCount() that makes
\* num_waiting_ equal to count_.
ReachesCount ==
  \E t \in Threads :
    \/ (pc[t] = "Wait" /\ pc'[t] # "Wait" /\ num_waiting_ + 1 = count_)
    \/ (pc[t] = "DecrementCount" /\ pc'[t] = "DecExit"
        /\ num_waiting_ = count_ - 1)

\* C7: generation_ never decreases; it grows by exactly one, and
\* num_waiting_ is reset to 0, in exactly the steps in which num_waiting_
\* reaches count_; in every other step generation_ is unchanged and
\* num_waiting_ does not decrease.
C7_GenerationSteps ==
  [][/\ generation_' >= generation_
     /\ ReachesCount => (generation_' = generation_ + 1 /\ num_waiting_' = 0)
     /\ ~ReachesCount =>
          (generation_' = generation_ /\ num_waiting_' >= num_waiting_)]_vars

\* C7 witness: the barrier has released twice, the second time from a
\* Wait() call.
C7_Witness ==
  /\ generation_ >= 2
  /\ \E t \in Threads : hist_releaser = t /\ pc[t] = "WaitExit"

\* C8: at every barrier release after the first, each unswapped worker
\* still playing is about to suggest its move m and each swapped worker
\* still playing its move m - 1, every one of them waiting at the barrier
\* with an inference instance of the same model.
C8_OneMoveBehind ==
  (hist_releaser # NoThread /\ generation_ > 1) =>
    /\ \A t \in Threads :
         StillPlaying(t) => (InWait(t) /\ dual_net[t] # NoNet)
    /\ \A t, u \in Threads :
         (StillPlaying(t) /\ StillPlaying(u)) =>
           /\ dual_net[t] = dual_net[u]
           /\ (~swap_models(t) /\ swap_models(u))
                => MoveNumber(t) = MoveNumber(u) + 1

\* C9: every worker eventually terminates.
C9_AllTerminate == <>(\A t \in Threads : pc[t] = "done")

\* C9 witness: all workers are done, one of them after a shorter game than
\* another.
C9_Witness ==
  /\ \A t \in Threads : pc[t] = "done"
  /\ \E t, u \in Threads : Len(pos[t][1]) < Len(pos[u][1])

\* C10: after every loop iteration both players of a worker have had the
\* same moves applied; at the end their results agree and the fatal check
\* does not fire.
C10_MirroredPlayers ==
  \A t \in Threads :
    /\ pc[t] # "fatal"
    /\ pc[t] \in {"while", "DecrementCount", "DecExit", "check", "done"}
         => pos[t][1] = pos[t][2]
    /\ pc[t] \in {"check", "done"}
         => result(pos[t][player[t]]) = result(pos[t][3 - player[t]])

\* C10 witness: a worker has passed the check after a game of two moves or
\* more.
C10_Witness ==
  \E t \in Threads : pc[t] = "done" /\ Len(pos[t][player[t]]) >= 2

\* The result of worker t's game (its two players agree, see C10).
GameResult(t) == result(pos[t][1])

\* C11: a positive result increments black_wins of the model whose inference
\* instance suggested the first move, a negative result white_wins of the
\* other model, whatever the number of moves and the cohort of the worker.
C11_WinAttribution ==
  [][\A t \in Threads :
       (pc[t] = "check" /\ pc'[t] = "done") =>
         /\ black_wins' =
              IF GameResult(t) > 0
              THEN [black_wins EXCEPT ![hist_black[t]] = @ + 1]
              ELSE black_wins
         /\ white_wins' =
              IF GameResult(t) < 0
              THEN [white_wins EXCEPT ![Other(hist_black[t])] = @ + 1]
              ELSE white_wins]_vars

\* C11 witness: a swapped worker has finished a game of one move (an odd
\* number of swaps in the loop) that white won, and the win is credited to
\* the model that played white there.
C11_Witness ==
  \E t \in Threads :
    /\ swap_models(t)
    /\ pc[t] = "done"
    /\ Len(pos[t][1]) = 1
    /\ GameResult(t) < 0
    /\ hist_black[t] = "prev"
    /\ white_wins["cur"] >= 1

TotalWins ==
  black_wins["cur"] + black_wins["prev"] + white_wins["cur"] + white_wins["prev"]

\* C12 as stated: once all workers have finished, the wins of both models
\* sum to the number of games.
C12_OneWinPerGame ==
  (\A t \in Threads : pc[t] = "done") => TotalWins = NumGames

\* C12 as amended: the wins of both models sum to the number of finished
\* games whose result is not 0 (a finished game increments exactly one
\* counter once if its result is not 0, and none if it is 0), and no counter
\* ever decreases.
C12_OneWinPerDecidedGame ==
  /\ [](TotalWins =
          Cardinality({t \in Threads : pc[t] = "done" /\ GameResult(t) # 0}))
  /\ [][\A m \in Models :
          black_wins'[m] >= black_wins[m] /\ white_wins'[m] >= white_wins[m]]_vars

\* C12 witness: all workers have finished, one with a tie and one with a
\* decided game.
C12_Witness ==
  /\ \A t \in Threads : pc[t] = "done"
  /\ \E t \in Threads : GameResult(t) = 0
  /\ \E t \in Threads : GameResult(t) # 0
  /\ TotalWins = NumGames - Cardinality({t \in Threads : GameResult(t) = 0})

\* The model of the side to move in worker t's game: black is the worker's
\* `model`, and the sides alternate.
SideToMove(t) ==
  IF Len(pos[t][1]) % 2 = 0 THEN model(t) ELSE other_model(t)

\* C13: a worker's inference instance is live only from its creation for a
\* move until SuggestMove has returned (while the worker waits at the barrier
\* and suggests), it is an instance of the side to move's factory, and none
\* is live when the move is applied, between moves or once the game is over.
C13_OneInstancePerMove ==
  \A t \in Threads :
    /\ dual_net[t] # NoNet =>
         /\ (InWait(t) /\ site[t] = "suggest") \/ pc[t] \in {"suggest", "reset"}
         /\ dual_net[t] = SideToMove(t)
    /\ pc[t] \in {"suggest", "reset"} => dual_net[t] # NoNet
    /\ pc[t] = "new" => (dual_net[t] = NoNet /\ factory[t] = SideToMove(t))
    /\ pc[t] \in {"play", "while", "DecrementCount", "DecExit", "check", "done"}
         => dual_net[t] = NoNet

\* C13 witness: a worker is about to suggest its second move with an
\* instance of its other model.
C13_Witness ==
  \E t \in Threads :
    /\ pc[t] = "suggest"
    /\ Len(pos[t][1]) = 1
    /\ dual_net[t] = other_model(t)

----------------------------------------------------------------------------
(* GtpClient::Send                                                         *)

SendDone == s_pc \in {"returned", "failed"}

\* r is str without its leading and trailing white space: a middle part of
\* str that neither starts nor ends with white space, with nothing but white
\* space before and after it.
IsTrimOf(r, str) ==
  \E i \in 1 .. (Len(str) + 1), j \in 0 .. Len(str) :
    /\ r = SubSeq(str, i, j)
    /\ \A k \in 1 .. (i - 1) : str[k] \in Whitespace
    /\ \A k \in (j + 1) .. Len(str) : str[k] \in Whitespace
    /\ r = <<>> \/ (r[1] \notin Whitespace /\ r[Len(r)] \notin Whitespace)

\* C16: Send() reads lines up to and including the first line that begins
\* with '=' or '?' and none after it; lines beginning with neither are
\* skipped (Send goes on reading); a '?' line gives an absent result, a '='
\* line gives the line without the '=' and without surrounding white space.
C16_SendReply ==
  /\ hist_s_taken < 2
  /\ s_pc = "getline" => hist_s_taken = 0
  /\ s_pc = "returned" =>
       /\ hist_s_taken = 1
       /\ IsReplyLine(hist_s_reply)
       /\ Head(hist_s_reply) = "?" => s_result = Nullopt
       /\ Head(hist_s_reply) = "=" =>
            /\ s_result.has_value
            /\ IsTrimOf(s_result.value, Tail(hist_s_reply))

\* Send skipped a line, then returned "b" for the line "= b", and a line
\* written after it is still unread.
C16_Witness ==
  /\ s_pc = "returned"
  /\ hist_s_skipped
  /\ hist_s_reply = <<"=", " ", "b", "\n">>
  /\ s_result = Value(<<"b">>)
  /\ s_pipe # NoLine

\* C17: Send() does not block forever on malformed input: when the
\* subprocess has answered only with lines that begin with neither '=' nor
\* '?' and writes nothing more, Send() has returned or failed.
C17_NeverBlocksForever ==
  (/\ s_sub = "silent"
   /\ s_pipe = NoLine
   /\ hist_s_skipped
   /\ hist_s_reply = NoLine) => SendDone

\* C17 (amended): Send() has no timeout.  It returns only for a line that
\* begins with '=' or '?', fails only when the subprocess has closed its
\* output, and does one of the two once such a line has been written or the
\* output has been closed; otherwise it keeps waiting.
C17_ReturnsOnReplyOrEof ==
  /\ [](s_pc = "returned" => hist_s_reply # NoLine)
  /\ [](s_pc = "failed" => s_sub = "closed" /\ hist_s_reply = NoLine)
  /\ ((hist_s_reply # NoLine \/ s_sub = "closed") ~> SendDone)

\* The subprocess wrote only a line Send skipped and closed its output:
\* Send failed.
C17_Witness ==
  /\ s_pc = "failed"
  /\ hist_s_skipped
  /\ hist_s_reply = NoLine

----------------------------------------------------------------------------
(* GtpEvaluator                                                            *)

\* Worker t takes the step of ThreadRun that leads from `from` to `to`.
GtpStep(t, from, to) == g_pc[t] = from /\ g_pc'[t] = to

\* The engine's results object gets one more win for the engine's colour
\* and nothing else is counted.
EngineCredited(t) ==
  IF gtp_is_black(t)
  THEN /\ gtp_black_wins' =
            [gtp_black_wins EXCEPT !["gtp_results"] = @ + 1]
       /\ gtp_white_wins' = gtp_white_wins
  ELSE /\ gtp_white_wins' =
            [gtp_white_wins EXCEPT !["gtp_results"] = @ + 1]
       /\ gtp_black_wins' = gtp_black_wins

\* The internal agent's results object gets one more win for the internal
\* agent's colour and nothing else is counted.
AgentCredited(t) ==
  IF gtp_is_black(t)
  THEN /\ gtp_white_wins' =
            [gtp_white_wins EXCEPT !["mcts_results"] = @ + 1]
       /\ gtp_black_wins' = gtp_black_wins
  ELSE /\ gtp_black_wins' =
            [gtp_black_wins EXCEPT !["mcts_results"] = @ + 1]
       /\ gtp_white_wins' = gtp_white_wins

\* After a failed Play() the worker is not aborted, sends nothing more and
\* goes on to count and record the game; the move played is a resignation
\* that ends the game at once.
FailedPlayEndsGame ==
  /\ [](\A t \in Threads :
         hist_g_failed[t] => g_pc[t] \in {"played", "count", "sgf", "done"})
  /\ [][\A t \in Threads :
         (g_pc[t] = "played" /\ ~success[t] /\ g_pc'[t] # "played") =>
           /\ mcts_player'[t] = Append(mcts_player[t], "resign")
           /\ g_pc'[t] = "count"]_vars
  /\ [][\A t \in Threads :
         (g_pc[t] = "count" /\ hist_g_failed[t] /\ g_pc'[t] # "count") =>
           g_pc'[t] = IF sgf_dir THEN "sgf" ELSE "done"]_vars

\* C14: a failed play command is a resignation by the external engine: the
\* game ends at once, the run is not aborted, the game is recorded, and the
\* win is credited to the internal agent's colour.
C14_FailedPlayEngineLoses ==
  /\ FailedPlayEndsGame
  /\ [][\A t \in Threads :
         (g_pc[t] = "count" /\ hist_g_failed[t] /\ g_pc'[t] # "count") =>
           AgentCredited(t)]_vars

\* C14 (amended): a failed play command is a resignation by the internal
\* agent, whose move it replaces: the game ends at once, the run is not
\* aborted, the game is recorded, and the win is credited to the external
\* engine's colour.
C14_FailedPlayAgentLoses ==
  /\ FailedPlayEndsGame
  /\ [][\A t \in Threads :
         (g_pc[t] = "count" /\ hist_g_failed[t] /\ g_pc'[t] # "count") =>
           EngineCredited(t)]_vars

\* Worker 0 (engine white) finished a game in which a Play() failed, with an
\* SGF directory: the engine's white win is counted.
C14_Witness ==
  /\ sgf_dir
  /\ g_pc[0] = "done"
  /\ hist_g_failed[0]
  /\ gtp_white_wins["gtp_results"] = 1

\* The reply line carries a move: its payload is a point or resign.
CarriesMove(line) ==
  /\ Head(line) = "="
  /\ \E v \in {<<"b">>, <<"r">>} : IsTrimOf(v, Tail(line))

\* C15: color_ changes only on success.  A Play() answered with '?' returns
\* false and leaves color_ as it was, one answered with '=' returns true and
\* flips it; a GenMove() answered with '?' or with no valid move returns
\* kInvalid and leaves color_ as it was, one answered with a move returns
\* the move and flips it; no other step changes color_.
C15_ColorOnlyOnSuccess ==
  [][\A t \in Threads :
       /\ GtpStep(t, "play", "played") =>
            IF Head(hist_g_reply'[t]) = "?"
            THEN ~success'[t] /\ color_'[t] = color_[t]
            ELSE success'[t] /\ color_'[t] = OtherColor(color_[t])
       /\ GtpStep(t, "genmove", "genplay") =>
            IF CarriesMove(hist_g_reply'[t])
            THEN g_move'[t] \in Moves /\ color_'[t] = OtherColor(color_[t])
            ELSE g_move'[t] = kInvalid /\ color_'[t] = color_[t]
       /\ color_'[t] # color_[t] =>
            GtpStep(t, "play", "played") \/ GtpStep(t, "genmove", "genplay")
    ]_vars

\* Worker 0 is back from a failed Play() and worker 1 from a failed
\* GenMove(), each with the colour it sent.
C15_Witness ==
  /\ g_pc[0] = "played"
  /\ ~success[0]
  /\ color_[0] = hist_g_cmd[0].color
  /\ g_pc[1] = "genplay"
  /\ g_move[1] = kInvalid
  /\ color_[1] = hist_g_cmd[1].color

\* C19: no worker writes state that another worker may access at the same
\* time, other than under a lock or by an atomic increment; in particular
\* no worker reads an EvalResults name while another worker assigns it.
C19_NameNotWrittenWhileRead ==
  \A t, u \in Threads :
    t # u => ~(g_pc[t] = "assign" /\ g_pc[u] = "sgf")

----------------------------------------------------------------------------
(* SelfPlayer                                                              *)

\* The GameOptions that Init derives from the flag values F.
Snapshot(F) ==
  [run_forever |-> F["run_forever"], holdout_pct |-> F["holdout_pct"]]

\* C18: the GameOptions a worker derives never reflect a partly applied
\* reload: they are the options of the flag values as they were when the
\* last reload had ended, with all of its overrides applied and none of a
\* later one.
C18_NoPartialReload ==
  [][\A t \in Threads :
       (sp_pc[t] = "init" /\ sp_pc'[t] = "play") =>
         game_options'[t] = Snapshot(hist_stable)]_vars

\* The one reload of the run, by another worker, took both flags that the
\* options copy from 0 to 1, and worker t has derived its options from the result.
C18_Witness ==
  \E t \in Threads :
    /\ sp_pc[t] = "play"
    /\ hist_loader \notin {t, NoThread}
    /\ file.mtime = 1
    /\ FLAGS["run_forever"] = 1
    /\ FLAGS["holdout_pct"] = 1
    /\ game_options[t] = Snapshot(FLAGS)

\* C20: a reload attempt with no path configured, or against a file not
\* written since the previous attempt began, applies no override and leaves
\* every flag and the timestamp as they were, whichever worker makes it;
\* the file is read only when its modification time differs from the
\* recorded timestamp, and flags change only while its lines are applied.
C20_ReloadOnlyOnNewMtime ==
  [][\A t \in Threads :
       /\ (/\ sp_pc[t] = "lock"
           /\ sp_pc'[t] # "lock"
           /\ ~flags_path \/ hist_unmodified) =>
            /\ sp_pc'[t] = "init"
            /\ FLAGS' = FLAGS
            /\ flags_timestamp_' = flags_timestamp_
       /\ (sp_pc[t] # "read" /\ sp_pc'[t] = "read") =>
            flags_path /\ file.mtime # flags_timestamp_
       /\ FLAGS' # FLAGS => \E u \in Threads : sp_pc[u] = "apply"
    ]_vars

\* Worker t has just skipped the reload of a file with override lines that
\* another worker loaded and that was not written since.
C20_Witness ==
  \E t \in Threads :
    /\ sp_pc[t] = "init"
    /\ flags_path
    /\ hist_unmodified
    /\ hist_loader \notin {t, NoThread}
    /\ file.contents # <<>>
    /\ flags_timestamp_ = file.mtime

\* C21: when the reload a worker made has changed FLAGS_model, the worker
\* aborts the run at once, before it derives options or makes a player, and
\* nothing runs after the abort; when FLAGS_model is what it was before the
\* reload check, the worker goes on to its game and does not abort.
C21_ModelChangeAborts ==
  [][/\ ~SelfAborted
     /\ \A t \in Threads :
          (sp_pc[t] = "init" /\ sp_pc'[t] # "init") =>
            IF FLAGS["model"] # hist_old_model[t]
            THEN /\ sp_pc'[t] = "fatal"
                 /\ game_options' = game_options
            ELSE /\ sp_pc'[t] = "play"
                 /\ game_options'[t] = Snapshot(FLAGS)
     /\ SelfAborted' => \E t \in Threads : sp_pc[t] = "init"
    ]_vars

\* Worker t has aborted the run on a changed model path, with no options
\* derived, while worker u was playing a game.
C21_Witness ==
  \E t, u \in Threads :
    /\ t # u
    /\ sp_pc[t] = "fatal"
    /\ game_options[t] = NoOptions
    /\ FLAGS["model"] = 1
    /\ sp_pc[u] = "play"

\* C24: a worker reads flags only with mutex_ held, so that in no state is
\* a worker about to read a flag, with no lock, that another worker's reload
\* is about to set.
C24_FlagsReadUnderMutex ==
  \A t \in Threads :
    /\ sp_pc[t] = "init" => sp_mutex = t
    /\ ~(sp_pc[t] = "start" /\ BeingSet(t, "output_bigtable"))

\* C25: the GameOptions of a worker change only when that worker derives
\* them, with mutex_ held, at the start of a game of its own: no reload and
\* no step of another worker changes them, also not while the flags that
\* they were copied from change.
C25_OptionsFixedDuringGame ==
  [][\A t \in Threads :
       game_options'[t] # game_options[t] =>
         /\ sp_pc[t] = "init"
         /\ sp_pc'[t] = "play"
         /\ sp_mutex = t
         /\ game_options'[t] = Snapshot(FLAGS)]_vars

\* Worker t is in a game, or past it and before its holdout draw, and holds
\* options that differ from the flags: another worker reloaded after t's
\* game had begun.
C25_Witness ==
  \E t \in Threads :
    /\ sp_pc[t] \in {"play", "holdout"}
    /\ hist_loader \notin {t, NoThread}
    /\ game_options[t] # Snapshot(FLAGS)
    /\ game_options[t].holdout_pct # FLAGS["holdout_pct"]

\* The steps of one turn of the worker's loop, in order.
Cycle ==
  {<<"start", "lock">>, <<"lock", "init">>, <<"lock", "read">>,
   <<"read", "apply">>, <<"apply", "init">>, <<"init", "play">>,
   <<"init", "fatal">>, <<"play", "holdout">>, <<"holdout", "lock">>,
   <<"holdout", "stopped">>}

\* C26: every game of a worker comes after one reload check and one
\* derivation of its options, both with mutex_ held; after a game the
\* worker stops if run_forever is clear in the options of that game and
\* starts another turn if it is set; it stops in no other way; and options
\* derived while run_forever is clear have it clear, so that the game they
\* belong to is the worker's last.
C26_LoopWhileRunForever ==
  [][\A t \in Threads :
       /\ sp_pc'[t] # sp_pc[t] => <<sp_pc[t], sp_pc'[t]>> \in Cycle
       /\ (sp_pc[t] \in {"lock", "read", "apply", "init"} /\ sp_pc'[t] # "lock")
            => sp_mutex' = (IF sp_pc'[t] = "play" THEN NoThread ELSE t)
       /\ (sp_pc[t] = "holdout" /\ sp_pc'[t] # "holdout") =>
            sp_pc'[t] = (IF game_options[t].run_forever = 1
                         THEN "lock" ELSE "stopped")
       /\ sp_pc'[t] = "play" /\ sp_pc[t] # "play" =>
            game_options'[t].run_forever = FLAGS["run_forever"]
    ]_vars

\* Worker t has ended a game whose options had run_forever set and is in
\* its next turn, about to derive its options; a reload has cleared
\* run_forever.
C26_Witness ==
  \E t \in Threads :
    /\ sp_pc[t] = "init"
    /\ game_options[t].run_forever = 1
    /\ FLAGS["run_forever"] = 0
    /\ FLAGS["model"] = old_model[t]

----------------------------------------------------------------------------
(* GtpEvaluator: the order of the commands, the credit for a game          *)

\* The colour to move in the position of mcts_player: black moves first.
ToPlay(p) == IF Len(p) % 2 = 0 THEN "B" ELSE "W"

\* The colours of the two sides in worker t's game.
BridgeColor(t) == IF gtp_is_black(t) THEN "B" ELSE "W"

AgentColor(t) == OtherColor(BridgeColor(t))

BlackSide(t) == IF t % 2 = 0 THEN "mcts_results" ELSE "gtp_results"

WhiteSide(t) == IF t % 2 = 0 THEN "gtp_results" ELSE "mcts_results"

\* C28: the bridge moves second in the even workers and first in the odd
\* ones; a worker that counts its game adds one to black_wins of the side
\* that played black if the result is positive, one to white_wins of the
\* side that played white if it is negative, and changes no other counter;
\* counters change in no other step.
C28_WinnerCredited ==
  [][/\ \A t \in Threads :
          /\ (g_pc[t] = "count" /\ g_pc'[t] # "count") =>
               LET r == result(mcts_player[t])
               IN  /\ game_over(mcts_player[t])
                   /\ gtp_black_wins' =
                        IF r > 0
                        THEN [gtp_black_wins EXCEPT ![BlackSide(t)] = @ + 1]
                        ELSE gtp_black_wins
                   /\ gtp_white_wins' =
                        IF r < 0
                        THEN [gtp_white_wins EXCEPT ![WhiteSide(t)] = @ + 1]
                        ELSE gtp_white_wins
          /\ (g_pc[t] = "genmove" /\ mcts_player[t] = <<>>) => t % 2 = 1
          /\ (g_pc[t] = "play" /\ mcts_player[t] = <<>>) => t % 2 = 0
     /\ <<gtp_black_wins, gtp_white_wins>>' # <<gtp_black_wins, gtp_white_wins>>
          => \E t \in Threads : g_pc[t] = "count" /\ g_pc'[t] # "count"
    ]_vars

\* Workers 0 and 1 have counted their games, both won by black: by the
\* internal agent in worker 0 and by the bridge in worker 1.
C28_Witness ==
  /\ g_pc[0] = "done"
  /\ g_pc[1] = "done"
  /\ result(mcts_player[0]) > 0
  /\ result(mcts_player[1]) > 0
  /\ gtp_black_wins = [r \in Results |-> 1]
  /\ gtp_white_wins = [r \in Results |-> 0]

----------------------------------------------------------------------------
(* NewDualNetFactory                                                       *)

\* The least integer that is not less than a / b, for b > 0.
Ceil(a, b) == (a + b - 1) \div b

\* C23: for all W, V, B >= 1 the batch size is at least V, at least the
\* rounded-up quotient of V * W by B, and equal to the larger of the two.
C23_BatchSizeIsMax ==
  batch_size # NoBatch =>
    /\ batch_size >= virtual_losses
    /\ batch_size >= Ceil(virtual_losses * num_parallel_games, buffer_count)
    /\ batch_size =
         Max(Ceil(virtual_losses * num_parallel_games, buffer_count),
             virtual_losses)

----------------------------------------------------------------------------
(* MaybeReloadFlags on one line                                            *)

\* s is l without its comment and without the white space around what is
\* left: what is left is the part of l before the first "#", or all of l.
IsStrippedOf(s, l) ==
  \E n \in 0 .. Len(l) :
    /\ \A i \in 1 .. n : l[i] # "#"
    /\ n < Len(l) => l[n + 1] = "#"
    /\ IsTrimOf(s, SubSeq(l, 1, n))

\* s is "--", the name flag, "=" and the value; the name is not empty and
\* has no "=".
IsOverride(s, flag, value) ==
  /\ s = <<"-", "-">> \o flag \o <<"=">> \o value
  /\ flag # <<>>
  /\ \A i \in 1 .. Len(flag) : flag[i] # "="

\* s has the form --name=value.
HasOverrideForm(s) ==
  \E k \in 4 .. Len(s) :
    IsOverride(s, SubSeq(s, 3, k - 1), SubSeq(s, k + 1, Len(s)))

\* The parts of the line l, which hold what l is stripped to.
Parts(l) == {SubSeq(l, i, j) : i \in 1 .. Len(l) + 1, j \in 0 .. Len(l)}

\* C22: a line is stripped of its comment and of the white space around
\* the rest; a line that is then empty is skipped; a line of the form
\* --name=value is applied as name := value; every other line is fatal.
C22_OnlyOverridesApplied ==
  flag_value # NoOutcome =>
    \E s \in Parts(flag_line) :
      /\ IsStrippedOf(s, flag_line)
      /\ IF s = <<>>
         THEN flag_value = Skipped
         ELSE IF HasOverrideForm(s)
         THEN /\ flag_value.kind = "set"
              /\ IsOverride(s, flag_value.flag, flag_value.value)
         ELSE flag_value = Fatal

\* C22 (amended): a line is stripped of its comment and of the white space
\* around the rest; a line that is then empty is skipped; a line of more
\* than two characters that starts with "--" is applied: what is between
\* the "--" and the first "=" is the name, what is after that "=" the
\* value, and without a "=" the rest of the line is the name and the value
\* is empty (the name too can be empty, as in "--=a"); every other line is
\* fatal.
C22_DashLinesApplied ==
  flag_value # NoOutcome =>
    \E s \in Parts(flag_line) :
      /\ IsStrippedOf(s, flag_line)
      /\ IF s = <<>>
         THEN flag_value = Skipped
         ELSE IF Len(s) > 2 /\ SubSeq(s, 1, 2) = <<"-", "-">>
         THEN /\ flag_value.kind = "set"
              /\ \A i \in 1 .. Len(flag_value.flag) :
                   flag_value.flag[i] # "="
              /\ \/ s = <<"-", "-">> \o flag_value.flag \o <<"=">>
                          \o flag_value.value
                 \/ /\ s = <<"-", "-">> \o flag_value.flag
                    /\ flag_value.value = <<>>
         ELSE flag_value = Fatal

\* The line "--a=a #", an override with a blank and a comment after it, has
\* been applied as a := a.
C22_Witness ==
  /\ flag_line = <<"-", "-", "a", "=", "a", " ", "#">>
  /\ flag_value = Set(<<"a">>, <<"a">>)

----------------------------------------------------------------------------
(* Puzzle                                                                  *)

\* C29: once the puzzles of a game with n main-line moves are made, there
\* are n of them; the player of the k-th has had the first k - 1 moves
\* played on it, in order, and its move is the k-th of the game; every
\* puzzle has one thread, which asks for one suggestion; when the threads
\* are joined, the counter is the number of puzzles whose suggestion was
\* the move of the puzzle, and so at most n.
C29_OnePuzzlePerPrefix ==
  /\ \A k \in 1 .. Len(puzzles) :
       /\ puzzles[k].player = SubSeq(moves, 1, k - 1)
       /\ puzzles[k].answer = moves[k]
  /\ pz_pc # "build" =>
       /\ Len(puzzles) = Len(moves)
       /\ players = <<>>
  /\ pz_done \subseteq 1 .. Len(puzzles)
  /\ \A k \in 1 .. MaxPuzzleMoves : hist_pz_suggest[k] # NoMove <=> k \in pz_done
  /\ pz_result =
       Cardinality({k \in pz_done : hist_pz_suggest[k] = puzzles[k].answer})
  /\ pz_pc = "done" =>
       /\ pz_done = 1 .. Len(moves)
       /\ pz_result <= Len(moves)

\* The puzzles of the game a, b, a are done: the second, made after the
\* move a, and the third, made after a and b, were solved, the first not.
C29_Witness ==
  /\ pz_pc = "done"
  /\ moves = <<"a", "b", "a">>
  /\ puzzles[3].player = <<"a", "b">>
  /\ hist_pz_suggest[1] = "b"
  /\ hist_pz_suggest[2] = "b"
  /\ hist_pz_suggest[3] = "a"
  /\ pz_result = 2

====
